---- MODULE Spec2Model ----
(***************************************************************************)
(* pymachine: the construction engine (construction.py) and the lexicon    *)
(* (lexicon.py) as state machines over a heap of Machine objects.          *)
(*                                                                         *)
(* Machines and control objects are heap cells addressed by their index,   *)
(* so that aliasing and in-place mutation are visible.  A POS string is a  *)
(* sequence of atoms: "NOUN<CAS<ACC>>" is << <<"TAG","NOUN">>,             *)
(* <<"CAS","ACC">> >>, and the suffix "<DET>" is the atom <<"TAG","<DET>">>*)
(***************************************************************************)
EXTENDS Integers, Sequences, FiniteSets, TLC

VARIABLES
    machines,   \* heap of Machine objects: [name, control, partitions]
    controls,   \* heap of control objects: the POS string each one holds
    cur,        \* active states of the automaton of the construction
    vc,         \* the VerbConstruction instance (its own fields)
    static,     \* Lexicon.static: printname -> machine
    active,     \* Lexicon.active: printname -> (machine -> expanded)
    op,         \* the last operation that ran
    arg,        \* the sequence of machines it was given
    ret,        \* how it ended: "None", "True", "False", "value", "raise"
    out,        \* the list of machines it returned (when ret = "value")
    err,        \* the exception it raised (when ret = "raise")
    chk,        \* run: what its call of check returned
    acted       \* run: whether act was invoked

vars == <<machines, controls, cur, vc, static, active,
          op, arg, ret, out, err, chk, acted>>

\* ---------------------------------------------------------------- bounds
MaxLen == 3       \* longest sequence handed to check / run
MaxDet == 1       \* "<DET>" suffixes one POS string may collect
MaxPart == 2      \* children one partition may collect
MaxActLen == 2    \* length of the sequences act is called on directly
MaxMachines == 9  \* cells of the machine heap the deep copies of act may fill
MaxList == 2      \* longest list handed to add_static / add_active
MaxInstances == 2 \* machines Lexicon.activate may create

\* ------------------------------------------------------------ POS strings
Tag(t) == <<"TAG", t>>
Cas(c) == <<"CAS", c>>
DET_SUFFIX == Tag("<DET>")

\* sequences over S of length at most n
RECURSIVE SeqsUpTo(_, _)
SeqsUpTo(S, n) ==
    IF n = 0 THEN {<<>>}
    ELSE LET shorter == SeqsUpTo(S, n - 1)
         IN  shorter \cup {Append(s, x) : s \in {t \in shorter : Len(t) = n - 1}, x \in S}

Range(s) == {s[i] : i \in DOMAIN s}

\* F of the value of v, v worked out once
Bind(v, F(_)) == CHOOSE r \in {F(x) : x \in {v}} : TRUE

\* how many "<DET>" suffixes a POS string has collected
DetCount(pos) == Cardinality({i \in DOMAIN pos : pos[i] = DET_SUFFIX})

\* ---------------------------------------------------- Machine (boundary)
NoControl == 0

printname(ms, m) == ms[m].name

HasPos(ms, m) == ms[m].control # NoControl

PosOf(ms, cs, m) == cs[ms[m].control]

\* Machine.append(what, which_partition): plain append at the end
Machine_append(ms, to, what, pi) ==
    [ms EXCEPT ![to].partitions[pi + 1] = Append(@, what)]

\* ------------------------------------------- Transition / FSA (boundary)
PrintnameTransition(name) == [kind |-> "printname", re |-> "exact", x |-> name]

\* PosTransition("^X.*")
PosStarts(t) == [kind |-> "pos", re |-> "^", x |-> t]
\* PosTransition("CAS<X>")
PosContainsCas(c) == [kind |-> "pos", re |-> "CAS", x |-> c]
\* PosTransition("NOUN(?!.*CAS)")
PosNounNoCas == [kind |-> "pos", re |-> "NOM", x |-> "NOUN"]
\* PosTransition("(a|b|..)") over the literals of a supplementary group
PosAlternation(g) == [kind |-> "pos", re |-> "ALT", x |-> g]

\* re.search(pattern, pos) for the four pattern shapes above
PosSearch(t, pos) ==
    CASE t.re = "^"   -> Len(pos) > 0 /\ pos[1] = Tag(t.x)
      [] t.re = "CAS" -> \E i \in DOMAIN pos : pos[i] = Cas(t.x)
      [] t.re = "NOM" -> \E i \in DOMAIN pos :
                             /\ pos[i] = Tag("NOUN")
                             /\ \A j \in DOMAIN pos : j > i => pos[j][1] # "CAS"
      [] OTHER        -> \E i \in DOMAIN pos : pos[i] = Tag(t.x)

\* Transition.match(machine)
Match(t, ms, cs, m) ==
    IF t.kind = "printname" THEN printname(ms, m) = t.x
    ELSE HasPos(ms, m) /\ PosSearch(t, PosOf(ms, cs, m))

\* FSA(): `added` lists the calls of add_state in their order
FSA == [states |-> {}, init |-> {}, final |-> {}, trans |-> {}, added |-> <<>>]

add_state(f, s, is_init, is_final) ==
    [f EXCEPT !.states = @ \cup {s},
              !.added  = Append(@, s),
              !.init   = IF is_init THEN @ \cup {s} ELSE @,
              !.final  = IF is_final THEN @ \cup {s} ELSE @]

add_transition(f, t, from, to) ==
    [f EXCEPT !.trans = @ \cup {[from |-> from, t |-> t, to |-> to]}]

FSA_reset(f) == f.init

FSA_read(f, active_states, ms, cs, m) ==
    {tr.to : tr \in {x \in f.trans : x.from \in active_states /\ Match(x.t, ms, cs, m)}}

FSA_in_final(f, active_states) == active_states \cap f.final # {}

\* ------------------------------------------------------ Construction
\* the loop of Construction.check: feed the machines of seq in order
RECURSIVE ReadAll(_, _, _, _, _)
ReadAll(f, active_states, ms, cs, seq) ==
    IF seq = <<>> THEN active_states
    ELSE ReadAll(f, FSA_read(f, active_states, ms, cs, Head(seq)), ms, cs, Tail(seq))

\* mutant: check resets the automaton only when it stands in a final state
Construction_check_state_lazy(f, ms, cs, seq) ==
    ReadAll(f, IF FSA_in_final(f, cur) THEN FSA_reset(f) ELSE cur, ms, cs, seq)

\* Construction.check: the automaton's active states after the call
Construction_check_state(f, ms, cs, seq) == ReadAll(f, FSA_reset(f), ms, cs, seq)

\* Construction.check: its return value, given the active states it left
Construction_check(f, after) == FSA_in_final(f, after)

\* Construction.run: whether it goes on to act, given what check returned and
\* the active states the automaton is in after the call of check
Construction_run_acts(f, checked, after) == FSA_in_final(f, after)

\* ---------------------------------------------------- TheConstruction
\* mutant: the second transition tests ^ADJ instead of ^NOUN
TheConstruction_control_adj ==
    LET c0 == add_state(FSA, 0, TRUE, FALSE)
        c1 == add_state(c0, 1, FALSE, FALSE)
        c2 == add_state(c1, 2, FALSE, TRUE)
        c3 == add_transition(c2, PrintnameTransition("the"), 0, 1)
    IN  add_transition(c3, PosStarts("ADJ"), 1, 2)

\* TheConstruction.__init__: the automaton  0 -"the"-> 1 -^NOUN-> 2
TheConstruction_control ==
    LET c0 == add_state(FSA, 0, TRUE, FALSE)
        c1 == add_state(c0, 1, FALSE, FALSE)
        c2 == add_state(c1, 2, FALSE, TRUE)
        c3 == add_transition(c2, PrintnameTransition("the"), 0, 1)
    IN  add_transition(c3, PosStarts("NOUN"), 1, 2)

\* mutant: pos = "<DET>" in place of pos += "<DET>"
TheConstruction_act_assign(ms, cs, seq) ==
    [cs EXCEPT ![ms[seq[2]].control] = <<DET_SUFFIX>>]

\* TheConstruction.act: seq[1].control.pos += "<DET>" (the control heap after)
TheConstruction_act(ms, cs, seq) ==
    [cs EXCEPT ![ms[seq[2]].control] = Append(@, DET_SUFFIX)]

\* TheConstruction.act: return [seq[1]]
TheConstruction_act_result(seq) == <<seq[2]>>

\* -------------------------------------------------- DummyNPConstruction
\* mutant: the ^ADJ transition leads to the final state
DummyNPConstruction_control_adjfinal ==
    LET c0 == add_state(FSA, 0, TRUE, FALSE)
        c1 == add_state(c0, 1, FALSE, TRUE)
        c2 == add_transition(c1, PosStarts("ADJ"), 0, 1)
    IN  add_transition(c2, PosStarts("NOUN"), 0, 1)

\* DummyNPConstruction.__init__: the automaton  0 -^ADJ-> 0 -^NOUN-> 1
DummyNPConstruction_control ==
    LET c0 == add_state(FSA, 0, TRUE, FALSE)
        c1 == add_state(c0, 1, FALSE, TRUE)
        c2 == add_transition(c1, PosStarts("ADJ"), 0, 0)
    IN  add_transition(c2, PosStarts("NOUN"), 0, 1)

\* for adj in adjs: noun.append(adj)
RECURSIVE AppendEach(_, _, _)
AppendEach(ms, noun, adjs) ==
    IF adjs = <<>> THEN ms
    ELSE AppendEach(Machine_append(ms, noun, Head(adjs), 0), noun, Tail(adjs))

Reverse(s) == [i \in DOMAIN s |-> s[Len(s) + 1 - i]]

\* mutant: the adjectives are attached right to left
DummyNPConstruction_act_reversed(ms, seq) ==
    AppendEach(ms, seq[Len(seq)], Reverse(SubSeq(seq, 1, Len(seq) - 1)))

\* DummyNPConstruction.act: noun = seq[-1]; adjs = seq[:-1] (the heap after)
DummyNPConstruction_act(ms, seq) ==
    AppendEach(ms, seq[Len(seq)], SubSeq(seq, 1, Len(seq) - 1))

\* DummyNPConstruction.act: return [noun]
DummyNPConstruction_act_result(seq) == <<seq[Len(seq)]>>

\* ----------------------------------------------------- VerbConstruction
\* constants.deep_cases (boundary): the deep-case labels
deep_cases == {"NOM", "ACC", "DAT"}

\* the printnames that start with "@" (supplementary-group references)
AtNames == {"@HUM"}

\* supp_dict: group name -> the literals of the group
supp_dict(a) == IF a = "@HUM" THEN "HUM" ELSE "NONE"

startswith_at(pn) == pn \in AtNames

\* the empty dict
EmptyDict == [k \in {} |-> <<>>]

\* d[pn].append(loc) on a defaultdict(list)
DictAppend(d, pn, loc) ==
    IF pn \in DOMAIN d THEN [d EXCEPT ![pn] = Append(@, loc)]
    ELSE [k \in DOMAIN d \cup {pn} |-> IF k = pn THEN <<loc>> ELSE d[k]]

\* p[:to_remove] + p[to_remove+1:]  (to_remove 1-based here, 0 for None)
RemoveAt(p, to_remove) ==
    IF to_remove = 0 THEN p
    ELSE SubSeq(p, 1, to_remove - 1) \o SubSeq(p, to_remove + 1, Len(p))

\* VerbConstruction.discover_arguments: [ms |-> the heap, d |-> the dict] after
\* walking the partitions 1.. of `machine`.  DiscoverChildren is the inner
\* loop over one partition p, DiscoverPartitions the outer loop over the
\* slice partitions[1:] taken when the call starts.  There is no set of
\* visited machines: a walk deeper than the heap has machines is on a cycle
\* and never ends, which Python ends with a RuntimeError.
RECURSIVE discover_walk(_, _, _, _)
RECURSIVE DiscoverPartitions(_, _, _, _, _, _)
RECURSIVE DiscoverChildren(_, _, _, _, _, _, _, _)
DiscoverChildren(ms, d, machine, pi, p, mi, to_remove, depth) ==
    IF mi > Len(p)
    THEN [ms |-> ms, d |-> d, to_remove |-> to_remove, raised |-> FALSE, err |-> ""]
    ELSE LET pn == printname(ms, p[mi])
             is_arg == pn \in deep_cases \/ startswith_at(pn)
             d1 == IF is_arg THEN DictAppend(d, pn, <<machine, pi>>) ELSE d
         IN  Bind(discover_walk(ms, d1, p[mi], depth + 1), LAMBDA r :
                 IF r.raised
                 THEN [ms |-> r.ms, d |-> r.d, to_remove |-> to_remove,
                       raised |-> TRUE, err |-> r.err]
                 ELSE DiscoverChildren(r.ms, r.d, machine, pi, p, mi + 1,
                                       IF is_arg THEN mi ELSE to_remove, depth))

DiscoverPartitions(ms, d, machine, parts, pi, depth) ==
    IF pi + 1 > Len(parts) THEN [ms |-> ms, d |-> d, raised |-> FALSE, err |-> ""]
    ELSE Bind(DiscoverChildren(ms, d, machine, pi, parts[pi + 1], 1, 0, depth), LAMBDA r :
            IF r.raised THEN [ms |-> r.ms, d |-> r.d, raised |-> TRUE, err |-> r.err]
            ELSE DiscoverPartitions(
                     IF r.to_remove = 0 THEN r.ms
                     ELSE [r.ms EXCEPT ![machine].partitions[pi + 1] =
                                           RemoveAt(parts[pi + 1], r.to_remove)],
                     r.d, machine, parts, pi + 1, depth))

discover_walk(ms, d, machine, depth) ==
    IF depth > Len(ms) THEN [ms |-> ms, d |-> d, raised |-> TRUE, err |-> "RuntimeError"]
    ELSE DiscoverPartitions(ms, d, machine, ms[machine].partitions, 1, depth)

discover_arguments(ms, d, machine) == discover_walk(ms, d, machine, 1)

\* the matcher generate_phi builds for one argument key (lines 96-111)
ArgTransition(a) ==
    IF startswith_at(a) THEN PosAlternation(supp_dict(a))
    ELSE IF a = "NOM" THEN PosNounNoCas
    ELSE PosContainsCas(a)

VerbTransition == PosStarts("VERB")

NoLocations == [none |-> TRUE, locs |-> <<>>]
Locations(l) == [none |-> FALSE, locs |-> l]

\* VerbConstruction.generate_phi: `arguments` is the list of the keys, so
\* the lookup arguments[arg] in the first turn of the loop indexes a list
\* with a string and raises TypeError; without arguments the loop is empty
generate_phi(arg_locations) ==
    IF DOMAIN arg_locations = {}
    THEN [raised |-> FALSE, err |-> "",
          transitions |-> [k \in {"VERB"} |-> VerbTransition],
          phi |-> [t \in {VerbTransition} |-> NoLocations]]
    ELSE [raised |-> TRUE, err |-> "TypeError",
          transitions |-> [k \in {"VERB"} |-> VerbTransition],
          phi |-> [t \in {VerbTransition} |-> NoLocations]]

\* the orders a set can be listed in (dict.keys(), itertools.permutations)
Perms(S) ==
    {s \in [1..Cardinality(S) -> S] : \A i, j \in DOMAIN s : i # j => s[i] # s[j]}

Pow2(n) == 2 ^ n

\* index of arg in the list arguments (0-based, as list.index)
IndexOf(arguments, a) == (CHOOSE i \in DOMAIN arguments : arguments[i] = a) - 1

\* the inner loop of generate_control over one path of the permutations
RECURSIVE PathTransitions(_, _, _, _, _)
PathTransitions(control, transitions, arguments, path, actual_state) ==
    IF path = <<>> THEN control
    ELSE LET increase == Pow2(IndexOf(arguments, Head(path)))
             new_state == actual_state + increase
         IN  PathTransitions(
                 add_transition(control, transitions[Head(path)], actual_state, new_state),
                 transitions, arguments, Tail(path), new_state)

\* mutant: every step of a path adds 1, whatever the argument
RECURSIVE PathTransitions_plus1(_, _, _, _, _)
PathTransitions_plus1(control, transitions, arguments, path, actual_state) ==
    IF path = <<>> THEN control
    ELSE PathTransitions_plus1(
             add_transition(control, transitions[Head(path)], actual_state, actual_state + 1),
             transitions, arguments, Tail(path), actual_state + 1)

RECURSIVE AddStates(_, _, _)
AddStates(control, i, n) ==
    IF i >= n THEN control
    ELSE AddStates(add_state(control, i, FALSE, FALSE), i + 1, n)

RECURSIVE AllPaths(_, _, _, _)
AllPaths(control, transitions, arguments, paths) ==
    IF paths = {} THEN control
    ELSE LET path == CHOOSE q \in paths : TRUE
         IN  AllPaths(PathTransitions(control, transitions, arguments, path, 1),
                      transitions, arguments, paths \ {path})

\* mutant of generate_control: the paths are walked by PathTransitions_plus1
RECURSIVE AllPaths_plus1(_, _, _, _)
AllPaths_plus1(control, transitions, arguments, paths) ==
    IF paths = {} THEN control
    ELSE LET path == CHOOSE q \in paths : TRUE
         IN  AllPaths_plus1(PathTransitions_plus1(control, transitions, arguments, path, 1),
                            transitions, arguments, paths \ {path})

generate_control_plus1(transitions, arguments) ==
    LET n == Len(arguments)
        c0 == add_state(FSA, 0, TRUE, FALSE)
        c1 == AddStates(c0, 1, Pow2(n))
        c2 == add_state(c1, Pow2(n), FALSE, TRUE)
        c3 == add_transition(c2, transitions["VERB"], 0, 1)
    IN  AllPaths_plus1(c3, transitions, arguments, Perms(Range(arguments)))

\* mutant: the loop of the inner states runs up to 2^N inclusive
generate_control_inclusive(transitions, arguments) ==
    LET n == Len(arguments)
        c0 == add_state(FSA, 0, TRUE, FALSE)
        c1 == AddStates(c0, 1, Pow2(n) + 1)
        c2 == add_state(c1, Pow2(n), FALSE, TRUE)
        c3 == add_transition(c2, transitions["VERB"], 0, 1)
    IN  AllPaths(c3, transitions, arguments, Perms(Range(arguments)))

\* VerbConstruction.generate_control; `arguments` is the list
\* self.transitions.keys() without "VERB", in the order the dict gives it
generate_control(transitions, arguments) ==
    LET n == Len(arguments)
        c0 == add_state(FSA, 0, TRUE, FALSE)
        c1 == AddStates(c0, 1, Pow2(n))
        c2 == add_state(c1, Pow2(n), FALSE, TRUE)
        c3 == add_transition(c2, transitions["VERB"], 0, 1)
    IN  AllPaths(c3, transitions, arguments, Perms(Range(arguments)))

\* the machines a machine holds in its partitions
Children(ms, m) ==
    UNION {Range(ms[m].partitions[i]) : i \in DOMAIN ms[m].partitions}

\* copy.deepcopy (boundary): the machines reachable from those in seen
RECURSIVE ReachableFrom(_, _)
ReachableFrom(ms, seen) ==
    LET more == seen \cup UNION {Children(ms, m) : m \in seen}
    IN  IF more = seen THEN seen ELSE ReachableFrom(ms, more)

\* position of x in the ascending listing of the set S of numbers
Rank(S, x) == Cardinality({y \in S : y <= x})

\* the heap with the machines R and the control objects C copied into
\* fresh cells, sharing kept among the copies
CopyCells(ms, cs, root, R, C) ==
    LET newm(m) == Len(ms) + Rank(R, m)
        newc(c) == IF c = NoControl THEN NoControl ELSE Len(cs) + Rank(C, c)
        oldm == [k \in {newm(m) : m \in R} |-> CHOOSE m \in R : newm(m) = k]
        oldc == [k \in {newc(c) : c \in C} |-> CHOOSE c \in C : newc(c) = k]
    IN  [ms |-> [k \in 1..(Len(ms) + Cardinality(R)) |->
                    IF k <= Len(ms) THEN ms[k]
                    ELSE [name |-> ms[oldm[k]].name,
                          control |-> newc(ms[oldm[k]].control),
                          partitions |-> [i \in DOMAIN ms[oldm[k]].partitions |->
                              [j \in DOMAIN ms[oldm[k]].partitions[i] |->
                                  newm(ms[oldm[k]].partitions[i][j])]]]],
         cs |-> [k \in 1..(Len(cs) + Cardinality(C)) |->
                    IF k <= Len(cs) THEN cs[k] ELSE cs[oldc[k]]],
         root |-> newm(root)]

\* copy.deepcopy(self.machine): every machine and control object reachable
\* from root is copied once
DeepCopy(ms, cs, root) ==
    CHOOSE cp \in {CopyCells(ms, cs, root, R, {ms[m].control : m \in R} \ {NoControl}) :
                     R \in {ReachableFrom(ms, {root})}} : TRUE

\* self.case_pattern.match(pos) is not None, for "N(OUN|P)[^C]*CAS<([^>]*)>":
\* NOUN or NP at the start, then a CAS atom (no atom here holds a "C" but CAS)
case_pattern_matches(pos) ==
    /\ Len(pos) > 1
    /\ pos[1] \in {Tag("NOUN"), Tag("NP")}
    /\ \E i \in 2..Len(pos) : pos[i][1] = "CAS"

\* for m_to, m_p_i in locations: m_to.append(m, m_p_i)
RECURSIVE AppendInto(_, _, _)
AppendInto(ms, locs, m) ==
    IF locs = <<>> THEN ms
    ELSE AppendInto(Machine_append(ms, Head(locs)[1], m, Head(locs)[2]), Tail(locs), m)

\* the first loop of act (lines 189-206): the verb token hands its control
\* to verb_machine; for any other token the code reads self.case_locations,
\* an attribute no method of the class assigns, which raises AttributeError
\* (as does m.control.pos on a machine whose control has no POS string)
RECURSIVE ActFirstLoop(_, _, _, _, _)
ActFirstLoop(ms, cs, verb_name, verb_machine, seq) ==
    IF seq = <<>> THEN [ms |-> ms, raised |-> FALSE, err |-> ""]
    ELSE LET m == Head(seq)
         IN  IF printname(ms, m) = verb_name
             THEN ActFirstLoop([ms EXCEPT ![verb_machine].control = ms[m].control],
                               cs, verb_name, verb_machine, Tail(seq))
             ELSE IF ~HasPos(ms, m)
             THEN [ms |-> ms, raised |-> TRUE, err |-> "AttributeError"]
             ELSE IF \/ case_pattern_matches(PosOf(ms, cs, m))
                     \/ PosSearch(PosStarts("NOUN"), PosOf(ms, cs, m))
             THEN [ms |-> ms, raised |-> TRUE, err |-> "AttributeError"]
             ELSE [ms |-> ms, raised |-> TRUE, err |-> "Exception"]

\* the second loop of act (lines 208-218): the first transition of phi, in
\* the order the dict lists them, that matches m and has locations gets m
RECURSIVE ActPhiOne(_, _, _, _, _)
ActPhiOne(ms, cs, phi, order, m) ==
    IF order = <<>> THEN ms
    ELSE IF phi[Head(order)].none THEN ActPhiOne(ms, cs, phi, Tail(order), m)
    ELSE IF Match(Head(order), ms, cs, m)
         THEN AppendInto(ms, phi[Head(order)].locs, m)
         ELSE ActPhiOne(ms, cs, phi, Tail(order), m)

RECURSIVE ActSecondLoop(_, _, _, _, _)
ActSecondLoop(ms, cs, phi, order, seq) ==
    IF seq = <<>> THEN ms
    ELSE ActSecondLoop(ActPhiOne(ms, cs, phi, order, Head(seq)), cs, phi, order, Tail(seq))

\* act after the deep copy cp: the two loops, activated, the result
ActAfterCopy(cp, v, order, seq, first) ==
    IF first.raised
    THEN [ms |-> first.ms, cs |-> cp.cs, machine |-> cp.root,
          activated |-> v.activated, raised |-> TRUE, err |-> first.err,
          result |-> <<>>]
    ELSE [ms |-> ActSecondLoop(first.ms, cp.cs, v.phi, order, seq),
          cs |-> cp.cs, machine |-> cp.root,
          activated |-> TRUE, raised |-> FALSE, err |-> "",
          result |-> <<v.machine>>]

\* VerbConstruction.act(seq); order is the order in which self.phi lists
\* its transitions.  The state after the call, and how the call ended:
\* clear_machine = copy(self.machine) becomes self.machine, verb_machine is
\* the machine held before and is what the result holds.
VerbConstruction_act(ms, cs, v, order, seq) ==
    CHOOSE r \in
        {ActAfterCopy(cp, v, order, seq, first) :
            <<cp, first>> \in
                {<<c, ActFirstLoop(c.ms, c.cs, printname(c.ms, c.root), v.machine, seq)>> :
                    c \in {DeepCopy(ms, cs, v.machine)}}} : TRUE

\* mutant: check consults the automaton whatever the activated flag says
VerbConstruction_check_always(activated, base) == base

\* VerbConstruction.check: False once activated, else Construction.check
\* (base is what Construction.check returns for the sequence)
VerbConstruction_check(activated, base) == IF activated THEN FALSE ELSE base

\* the automaton's active states after VerbConstruction.check: an activated
\* instance returns before the automaton is reset or fed
VerbConstruction_check_state(activated, before, base_after) ==
    IF activated THEN before ELSE base_after

\* ------------------------------------------------------------ fixtures
Mach(n, c, ps) == [name |-> n, control |-> c, partitions |-> ps]

NoVerbConstruction ==
    [status |-> "none", machine |-> 0, arg_locations |-> EmptyDict,
     transitions |-> EmptyDict, phi |-> EmptyDict, control |-> FSA,
     activated |-> FALSE]
EmptyPool == EmptyDict

\* the token machines of the TheConstruction runs: "the"/DET, a second
\* machine named "the" but tagged NOUN, "kockat"/NOUN<CAS<ACC>>, and a
\* machine with no POS control ("vonat", as in test()) and "kek"/ADJ
TheMachines ==
    << Mach("the", 1, << <<>> >>), Mach("the", 2, << <<>> >>),
       Mach("kockat", 3, << <<>> >>), Mach("vonat", NoControl, << <<>> >>),
       Mach("kek", 4, << <<>> >>) >>
TheControls ==
    << <<Tag("DET")>>, <<Tag("NOUN")>>, <<Tag("NOUN"), Cas("ACC")>>, <<Tag("ADJ")>> >>

\* the token machines of the DummyNPConstruction runs: two adjectives, a
\* noun, a determiner and a machine with no POS control
NPMachines ==
    << Mach("kek", 1, << <<>> >>), Mach("nagy", 2, << <<>> >>),
       Mach("kockat", 3, << <<>> >>), Mach("vonat", NoControl, << <<>> >>),
       Mach("the", 4, << <<>> >>) >>
NPControls ==
    << <<Tag("ADJ")>>, <<Tag("ADJ")>>, <<Tag("NOUN"), Cas("ACC")>>, <<Tag("DET")>> >>

\* the sequences handed to check / run: every sequence of token machines,
\* repetitions included, up to MaxLen
TheInputs == SeqsUpTo(DOMAIN TheMachines, MaxLen)
NPInputs == SeqsUpTo(DOMAIN NPMachines, MaxLen)

Idle ==
    /\ op = "idle" /\ arg = <<>> /\ ret = "None" /\ out = <<>> /\ err = ""
    /\ chk = FALSE /\ acted = FALSE

\* the caller takes the result: the record of the last call is cleared
Return ==
    /\ op # "idle"
    /\ op' = "idle" /\ arg' = <<>> /\ ret' = "None" /\ out' = <<>> /\ err' = ""
    /\ chk' = FALSE /\ acted' = FALSE
    /\ UNCHANGED <<machines, controls, cur, vc, static, active>>

\* ------------------------------------------- TheConstruction: actions
InitThe ==
    /\ machines = TheMachines /\ controls = TheControls
    /\ cur = FSA_reset(TheConstruction_control)
    /\ vc = NoVerbConstruction /\ static = EmptyPool /\ active = EmptyPool
    /\ Idle

\* thec.check(seq)
TheCheck(seq) ==
    LET f == TheConstruction_control
        after == Construction_check_state(f, machines, controls, seq)
    IN  /\ op = "idle"
        /\ cur' = after
        /\ op' = "check" /\ arg' = seq
        /\ ret' = IF Construction_check(f, after) THEN "True" ELSE "False"
        /\ out' = <<>> /\ err' = "" /\ chk' = Construction_check(f, after)
        /\ acted' = FALSE
        /\ UNCHANGED <<machines, controls, vc, static, active>>

\* thec.run(seq)
TheRun(seq) ==
    LET f == TheConstruction_control
        after == Construction_check_state(f, machines, controls, seq)
        checked == Construction_check(f, after)
        acts == Construction_run_acts(f, checked, after)
    IN  /\ op = "idle"
        /\ acts => DetCount(PosOf(machines, controls, seq[2])) < MaxDet
        /\ cur' = after
        /\ op' = "run" /\ arg' = seq /\ chk' = checked /\ acted' = acts
        /\ err' = ""
        /\ IF acts
           THEN /\ controls' = TheConstruction_act(machines, controls, seq)
                /\ ret' = "value" /\ out' = TheConstruction_act_result(seq)
           ELSE /\ controls' = controls
                /\ ret' = "None" /\ out' = <<>>
        /\ UNCHANGED <<machines, vc, static, active>>

NextThe ==
    \/ \E seq \in TheInputs : TheCheck(seq)
    \/ \E seq \in TheInputs : TheRun(seq)
    \/ Return

SpecThe == InitThe /\ [][NextThe]_vars

\* --------------------------------------- DummyNPConstruction: actions
InitNP ==
    /\ machines = NPMachines /\ controls = NPControls
    /\ cur = FSA_reset(DummyNPConstruction_control)
    /\ vc = NoVerbConstruction /\ static = EmptyPool /\ active = EmptyPool
    /\ Idle

\* npc.check(seq)
NPCheck(seq) ==
    LET f == DummyNPConstruction_control
        after == Construction_check_state(f, machines, controls, seq)
    IN  /\ op = "idle"
        /\ cur' = after
        /\ op' = "check" /\ arg' = seq
        /\ ret' = IF Construction_check(f, after) THEN "True" ELSE "False"
        /\ out' = <<>> /\ err' = "" /\ chk' = Construction_check(f, after)
        /\ acted' = FALSE
        /\ UNCHANGED <<machines, controls, vc, static, active>>

\* npc.run(seq)
NPRun(seq) ==
    LET f == DummyNPConstruction_control
        after == Construction_check_state(f, machines, controls, seq)
        checked == Construction_check(f, after)
        acts == Construction_run_acts(f, checked, after)
    IN  /\ op = "idle"
        /\ acts => Len(machines[seq[Len(seq)]].partitions[1]) + Len(seq) - 1 <= MaxPart
        /\ cur' = after
        /\ op' = "run" /\ arg' = seq /\ chk' = checked /\ acted' = acts
        /\ err' = ""
        /\ IF acts
           THEN /\ machines' = DummyNPConstruction_act(machines, seq)
                /\ ret' = "value" /\ out' = DummyNPConstruction_act_result(seq)
           ELSE /\ machines' = machines
                /\ ret' = "None" /\ out' = <<>>
        /\ UNCHANGED <<controls, vc, static, active>>

NextNP ==
    \/ \E seq \in NPInputs : NPCheck(seq)
    \/ \E seq \in NPInputs : NPRun(seq)
    \/ Return

SpecNP == InitNP /\ [][NextNP]_vars

\* ------------------------------------------ VerbConstruction: actions
\* the token machines of the VerbConstruction runs: "eszik"/VERB, "fiu"/NOUN,
\* "kockat"/NOUN<CAS<ACC>> and "haznak"/NOUN<CAS<ACC>><CAS<DAT>>
VerbTokens ==
    << Mach("eszik", 1, << <<>> >>), Mach("fiu", 2, << <<>> >>),
       Mach("kockat", 3, << <<>> >>), Mach("haznak", 4, << <<>> >>) >>
VerbControls ==
    << <<Tag("VERB")>>, <<Tag("NOUN")>>, <<Tag("NOUN"), Cas("ACC")>>,
       <<Tag("NOUN"), Cas("ACC"), Cas("DAT")>> >>

\* the verb machine handed to VerbConstruction(name, machine, supp_dict)
Lemma == Len(VerbTokens) + 1

Concept(n, ps) == Mach(n, NoControl, ps)

\* verb machines without argument slots: a bare one, and one that holds the
\* concept "etel" in partition 1
PlainVerbs ==
    { VerbTokens \o << Concept("eszik", << <<>> >>) >>,
      VerbTokens \o << Concept("eszik", << <<>>, <<Lemma + 1>> >>),
                       Concept("etel", << <<>> >>) >> }

\* verb machines with argument slots: NOM and ACC in partitions 1 and 2;
\* ACC nested under the concept "etel"; ACC and DAT in partitions 1 and 2
ArgumentVerbs ==
    { VerbTokens \o << Concept("eszik", << <<>>, <<Lemma + 1>>, <<Lemma + 2>> >>),
                       Concept("NOM", << <<>> >>), Concept("ACC", << <<>> >>) >>,
      VerbTokens \o << Concept("eszik", << <<>>, <<Lemma + 1>> >>),
                       Concept("etel", << <<>>, <<Lemma + 2>> >>),
                       Concept("ACC", << <<>> >>) >>,
      VerbTokens \o << Concept("eszik", << <<>>, <<Lemma + 1>>, <<Lemma + 2>> >>),
                       Concept("ACC", << <<>> >>), Concept("DAT", << <<>> >>) >> }

VerbInputs == SeqsUpTo(DOMAIN VerbTokens, MaxLen)
ActInputs == SeqsUpTo(DOMAIN VerbTokens, MaxActLen)

InitVerb ==
    /\ machines \in PlainVerbs \cup ArgumentVerbs
    /\ controls = VerbControls
    /\ cur = {}
    /\ vc = NoVerbConstruction /\ static = EmptyPool /\ active = EmptyPool
    /\ Idle

\* VerbConstruction("eszik", machine, supp_dict): __init__ (lines 71-80);
\* arguments is the order in which the dict lists the argument keys
VerbNew ==
    /\ op = "idle" /\ vc.status = "none"
    /\ LET found == discover_arguments(machines, EmptyDict, Lemma)
           gp == generate_phi(found.d)
       IN  /\ machines' = found.ms
           /\ \E arguments \in Perms(DOMAIN gp.transitions \ {"VERB"}) :
                IF found.raised \/ gp.raised
                THEN /\ vc' = [vc EXCEPT !.status = "raised", !.machine = Lemma,
                                         !.arg_locations =
                                            IF found.raised THEN @ ELSE found.d]
                     /\ cur' = cur
                     /\ ret' = "raise"
                     /\ err' = IF found.raised THEN found.err ELSE gp.err
                ELSE /\ vc' = [status |-> "ok", machine |-> Lemma,
                               arg_locations |-> found.d,
                               transitions |-> gp.transitions, phi |-> gp.phi,
                               control |-> generate_control(gp.transitions, arguments),
                               activated |-> FALSE]
                     /\ cur' = {}
                     /\ ret' = "None" /\ err' = ""
    /\ op' = "new" /\ arg' = <<>> /\ out' = <<>> /\ chk' = FALSE /\ acted' = FALSE
    /\ UNCHANGED <<controls, static, active>>

\* vc.check(seq)
VerbCheck(seq) ==
    LET f == vc.control
        base_after == Construction_check_state(f, machines, controls, seq)
        checked == VerbConstruction_check(vc.activated, Construction_check(f, base_after))
    IN  /\ op = "idle" /\ vc.status = "ok"
        /\ cur' = VerbConstruction_check_state(vc.activated, cur, base_after)
        /\ op' = "check" /\ arg' = seq
        /\ ret' = IF checked THEN "True" ELSE "False"
        /\ out' = <<>> /\ err' = "" /\ chk' = checked /\ acted' = FALSE
        /\ UNCHANGED <<machines, controls, vc, static, active>>

\* the effect of a call of act on the state and on the record of the call
VerbActs(seq) ==
    /\ Len(machines) + Cardinality(ReachableFrom(machines, {vc.machine})) <= MaxMachines
    /\ \E order \in Perms(DOMAIN vc.phi) :
         \E r \in {VerbConstruction_act(machines, controls, vc, order, seq)} :
             /\ machines' = r.ms /\ controls' = r.cs
             /\ vc' = [vc EXCEPT !.machine = r.machine, !.activated = r.activated]
             /\ ret' = IF r.raised THEN "raise" ELSE "value"
             /\ out' = r.result /\ err' = r.err

\* vc.run(seq): Construction.run, with VerbConstruction's check and act
VerbRun(seq) ==
    LET f == vc.control
        base_after == Construction_check_state(f, machines, controls, seq)
        checked == VerbConstruction_check(vc.activated, Construction_check(f, base_after))
        after == VerbConstruction_check_state(vc.activated, cur, base_after)
        acts == Construction_run_acts(f, checked, after)
    IN  /\ op = "idle" /\ vc.status = "ok"
        /\ cur' = after
        /\ op' = "run" /\ arg' = seq /\ chk' = checked /\ acted' = acts
        /\ IF acts THEN VerbActs(seq)
           ELSE /\ ret' = "None" /\ out' = <<>> /\ err' = ""
                /\ UNCHANGED <<machines, controls, vc>>
        /\ UNCHANGED <<static, active>>

\* vc.act(seq), called on its own
VerbAct(seq) ==
    /\ op = "idle" /\ vc.status = "ok"
    /\ op' = "act" /\ arg' = seq /\ chk' = FALSE /\ acted' = TRUE
    /\ VerbActs(seq)
    /\ UNCHANGED <<cur, static, active>>

NextVerb ==
    \/ VerbNew
    \/ \E seq \in VerbInputs : VerbCheck(seq)
    \/ \E seq \in VerbInputs : VerbRun(seq)
    \/ \E seq \in ActInputs : VerbAct(seq)
    \/ Return

SpecVerb == InitVerb /\ [][NextVerb]_vars

\* ---------------------------- VerbConstruction with arguments: actions
\* what the documentation of generate_phi has it build: a matcher for every
\* argument key, mapped to the locations discover_arguments recorded for it
DocumentedTransitions(arg_locations) ==
    [k \in DOMAIN arg_locations \cup {"VERB"} |->
        IF k = "VERB" THEN VerbTransition ELSE ArgTransition(k)]

DocumentedPhi(arg_locations) ==
    [t \in {ArgTransition(k) : k \in DOMAIN arg_locations} \cup {VerbTransition} |->
        IF t = VerbTransition THEN NoLocations
        ELSE Locations(arg_locations[CHOOSE k \in DOMAIN arg_locations : ArgTransition(k) = t])]

\* an instance in the state __init__ is documented to leave for a verb
\* machine with argument slots: the arguments discovered and removed, the
\* transitions and phi as documented, the automaton of generate_control
InitVerbArgs ==
    /\ \E ms \in ArgumentVerbs :
         LET found == discover_arguments(ms, EmptyDict, Lemma)
             transitions == DocumentedTransitions(found.d)
         IN  /\ machines = found.ms
             /\ \E arguments \in Perms(DOMAIN found.d) :
                  vc = [status |-> "ok", machine |-> Lemma,
                        arg_locations |-> found.d,
                        transitions |-> transitions,
                        phi |-> DocumentedPhi(found.d),
                        control |-> generate_control(transitions, arguments),
                        activated |-> FALSE]
    /\ controls = VerbControls
    /\ cur = {}
    /\ static = EmptyPool /\ active = EmptyPool
    /\ Idle

NextVerbArgs ==
    \/ \E seq \in VerbInputs : VerbCheck(seq)
    \/ \E seq \in VerbInputs : VerbRun(seq)
    \/ \E seq \in ActInputs : VerbAct(seq)
    \/ Return

SpecVerbArgs == InitVerbArgs /\ [][NextVerbArgs]_vars

\* -------------------------------------------------------------- Lexicon
\* mutant: an instance already registered keeps the flag it has
Lexicon_add_active_machine_keep(act, ms, m, expanded) ==
    LET pn == printname(ms, m)
        inner == IF pn \in DOMAIN act THEN act[pn] ELSE EmptyDict
        inner1 == [k \in DOMAIN inner \cup {m} |->
                      IF k \in DOMAIN inner THEN inner[k] ELSE expanded]
    IN  [k \in DOMAIN act \cup {pn} |-> IF k = pn THEN inner1 ELSE act[k]]

\* mutant: registering an instance makes a new inner dict for its printname
Lexicon_add_active_machine_fresh(act, ms, m, expanded) ==
    LET pn == printname(ms, m)
    IN  [k \in DOMAIN act \cup {pn} |->
            IF k = pn THEN [i \in {m} |-> expanded] ELSE act[k]]

\* self.active[printname][m] = expanded, the inner dict made when missing
Lexicon_add_active_machine(act, ms, m, expanded) ==
    LET pn == printname(ms, m)
        inner == IF pn \in DOMAIN act THEN act[pn] ELSE EmptyDict
        inner1 == [k \in DOMAIN inner \cup {m} |-> IF k = m THEN expanded ELSE inner[k]]
    IN  [k \in DOMAIN act \cup {pn} |-> IF k = pn THEN inner1 ELSE act[k]]

\* add_active(what) for a list: for m in what: self.__add_active_machine(m)
RECURSIVE Lexicon_add_active(_, _, _)
Lexicon_add_active(act, ms, what) ==
    IF what = <<>> THEN act
    ELSE Lexicon_add_active(Lexicon_add_active_machine(act, ms, Head(what), FALSE),
                            ms, Tail(what))

\* add_static(machines): for m in machines: self.static[str(m)] = m
RECURSIVE Lexicon_add_static(_, _, _)
Lexicon_add_static(st, ms, list) ==
    IF list = <<>> THEN st
    ELSE LET pn == printname(ms, Head(list))
         IN  Lexicon_add_static(
                 [k \in DOMAIN st \cup {pn} |-> IF k = pn THEN Head(list) ELSE st[k]],
                 ms, Tail(list))

IsActive(act, ms, m) ==
    printname(ms, m) \in DOMAIN act /\ m \in DOMAIN act[printname(ms, m)]

\* the loop of expand (lines 84-90), `for i, partition in partitions[1:]`:
\* each element of the slice is one partition, a list of machines, and is
\* unpacked into the pair (i, partition).  A partition that does not hold
\* exactly two machines cannot be unpacked (ValueError); one that does
\* gives a machine for i, and i + 1 raises TypeError.  The loop ends
\* normally only when the static machine has no partition of index >= 1.
ExpandLoop(parts) ==
    IF Len(parts) <= 1 THEN ""
    ELSE IF Len(parts[2]) # 2 THEN "ValueError" ELSE "TypeError"

\* mutant: expand marks the machine expanded although no static definition
\* of its printname exists
Lexicon_expand_marks(st, act, ms, machine) ==
    IF ~IsActive(act, ms, machine)
    THEN [active |-> act, raised |-> TRUE, err |-> "Exception"]
    ELSE [active |-> [act EXCEPT ![printname(ms, machine)][machine] = TRUE],
          raised |-> FALSE, err |-> ""]

\* Lexicon.expand(machine): the active pool after the call, and how it ended
Lexicon_expand(st, act, ms, machine) ==
    LET pn == printname(ms, machine)
    IN  IF ~IsActive(act, ms, machine)
        THEN [active |-> act, raised |-> TRUE, err |-> "Exception"]
        ELSE IF pn \notin DOMAIN st
        THEN [active |-> act, raised |-> FALSE, err |-> ""]
        ELSE IF ExpandLoop(ms[st[pn]].partitions) # ""
        THEN [active |-> act, raised |-> TRUE,
              err |-> ExpandLoop(ms[st[pn]].partitions)]
        ELSE [active |-> [act EXCEPT ![pn][machine] = TRUE],
              raised |-> FALSE, err |-> ""]

\* Machine(Monoid(printname)) (boundary): a machine with that name, no POS
\* control and an empty default partition
NewMachine(pn) == Mach(pn, NoControl, << <<>> >>)

\* the test of activate (lines 106-113): every machine in the partitions
\* 1.. of the static machine has its printname in self.active
to_activate(act, ms, static_machine) ==
    \A i \in 2..Len(ms[static_machine].partitions) :
        \A j \in DOMAIN ms[static_machine].partitions[i] :
            printname(ms, ms[static_machine].partitions[i][j]) \in DOMAIN act

\* Lexicon.activate(): order is the order in which self.static.iteritems()
\* lists the static pool; an exception of expand ends the call at once
RECURSIVE ActivateLoop(_, _, _, _, _)
ActivateLoop(st, act, ms, order, activated) ==
    IF order = <<>>
    THEN [active |-> act, ms |-> ms, raised |-> FALSE, err |-> "", activated |-> activated]
    ELSE IF ~to_activate(act, ms, st[Head(order)])
    THEN ActivateLoop(st, act, ms, Tail(order), activated)
    ELSE LET m == Len(ms) + 1
             ms1 == Append(ms, NewMachine(Head(order)))
             act1 == Lexicon_add_active(act, ms1, <<m>>)
             ex == Lexicon_expand(st, act1, ms1, m)
         IN  IF ex.raised
             THEN [active |-> ex.active, ms |-> ms1, raised |-> TRUE,
                   err |-> ex.err, activated |-> <<>>]
             ELSE ActivateLoop(st, ex.active, ms1, Tail(order), Append(activated, m))

Lexicon_activate(st, act, ms, order) == ActivateLoop(st, act, ms, order, <<>>)

\* what expanded and unexpanded give back: a flag, or None
Flag(b) == [none |-> FALSE, value |-> b]
NoInformation == [none |-> TRUE, value |-> FALSE]

\* Lexicon.expanded(m): self.active[printname][m]; a KeyError of either
\* lookup is caught, logged, and None is returned
Lexicon_expanded(act, ms, m) ==
    IF printname(ms, m) \notin DOMAIN act THEN NoInformation
    ELSE IF m \notin DOMAIN act[printname(ms, m)] THEN NoInformation
    ELSE Flag(act[printname(ms, m)][m])

\* mutant: unexpanded gives the flag back as it is stored
Lexicon_unexpanded_same(act, ms, m) ==
    IF printname(ms, m) \notin DOMAIN act THEN NoInformation
    ELSE IF m \notin DOMAIN act[printname(ms, m)] THEN NoInformation
    ELSE Flag(act[printname(ms, m)][m])

\* Lexicon.unexpanded(m): not self.active[printname][m], None on KeyError
Lexicon_unexpanded(act, ms, m) ==
    IF printname(ms, m) \notin DOMAIN act THEN NoInformation
    ELSE IF m \notin DOMAIN act[printname(ms, m)] THEN NoInformation
    ELSE Flag(~act[printname(ms, m)][m])

\* ----------------------------------------------------- Lexicon: actions
\* the machines of the Lexicon runs: "A" holds "B" in partition 1, "B" has
\* the default partition only, "C" holds "A" in partition 1
LexMachines ==
    << Concept("A", << <<>>, <<2>> >>), Concept("B", << <<>> >>),
       Concept("C", << <<>>, <<1>> >>) >>

LexLists == SeqsUpTo(DOMAIN LexMachines, MaxList)

\* Lexicon(): both pools empty
InitLexicon ==
    /\ machines = LexMachines /\ controls = <<>>
    /\ cur = {} /\ vc = NoVerbConstruction
    /\ static = EmptyDict /\ active = EmptyDict
    /\ Idle

Called(name, a, r, o, e) ==
    /\ op' = name /\ arg' = a /\ ret' = r /\ out' = o /\ err' = e
    /\ chk' = FALSE /\ acted' = FALSE

\* lexicon.add_static(list)
AddStatic(list) ==
    /\ op = "idle"
    /\ static' = Lexicon_add_static(static, machines, list)
    /\ Called("add_static", list, "None", <<>>, "")
    /\ UNCHANGED <<machines, controls, cur, vc, active>>

\* lexicon.add_active(what), what a list of machines
AddActiveList(list) ==
    /\ op = "idle"
    /\ active' = Lexicon_add_active(active, machines, list)
    /\ Called("add_active", list, "None", <<>>, "")
    /\ UNCHANGED <<machines, controls, cur, vc, static>>

\* lexicon.add_active(what), what a Machine
AddActiveMachine(m) ==
    /\ op = "idle"
    /\ active' = Lexicon_add_active_machine(active, machines, m, FALSE)
    /\ Called("add_active", <<m>>, "None", <<>>, "")
    /\ UNCHANGED <<machines, controls, cur, vc, static>>

\* lexicon.add_active(what), what of any other type: logged, ignored
AddActiveOther ==
    /\ op = "idle"
    /\ Called("add_active_other", <<>>, "None", <<>>, "")
    /\ UNCHANGED <<machines, controls, cur, vc, static, active>>

\* lexicon.expand(m)
Expand(m) ==
    /\ op = "idle"
    /\ \E r \in {Lexicon_expand(static, active, machines, m)} :
         /\ active' = r.active
         /\ Called("expand", <<m>>, IF r.raised THEN "raise" ELSE "None", <<>>, r.err)
    /\ UNCHANGED <<machines, controls, cur, vc, static>>

\* lexicon.activate()
Activate ==
    /\ op = "idle"
    /\ \E order \in Perms(DOMAIN static) :
         \E r \in {Lexicon_activate(static, active, machines, order)} :
             /\ Len(r.ms) <= Len(LexMachines) + MaxInstances
             /\ machines' = r.ms /\ active' = r.active
             /\ Called("activate", <<>>, IF r.raised THEN "raise" ELSE "value",
                       r.activated, r.err)
    /\ UNCHANGED <<controls, cur, vc, static>>

\* lexicon.expanded(m)
Expanded(m) ==
    /\ op = "idle"
    /\ \E r \in {Lexicon_expanded(active, machines, m)} :
         Called("expanded", <<m>>, IF r.none THEN "None" ELSE "value",
                IF r.none THEN <<>> ELSE <<r.value>>, "")
    /\ UNCHANGED <<machines, controls, cur, vc, static, active>>

\* lexicon.unexpanded(m)
Unexpanded(m) ==
    /\ op = "idle"
    /\ \E r \in {Lexicon_unexpanded(active, machines, m)} :
         Called("unexpanded", <<m>>, IF r.none THEN "None" ELSE "value",
                IF r.none THEN <<>> ELSE <<r.value>>, "")
    /\ UNCHANGED <<machines, controls, cur, vc, static, active>>

NextLexicon ==
    \/ \E list \in LexLists : AddStatic(list)
    \/ \E list \in LexLists : AddActiveList(list)
    \/ \E m \in DOMAIN machines : AddActiveMachine(m)
    \/ AddActiveOther
    \/ \E m \in DOMAIN machines : Expand(m)
    \/ Activate
    \/ \E m \in DOMAIN machines : Expanded(m)
    \/ \E m \in DOMAIN machines : Unexpanded(m)
    \/ Return

SpecLexicon == InitLexicon /\ [][NextLexicon]_vars

\* ------------------------------------------------- ElviraConstruction
\* ElviraPluginControl(): a control object without a POS string
ElviraPluginControl == << <<"PLUGIN", "elvira">> >>

\* machine.base.partitions[2] of a machine that has such a partition
HasPartition2(ms, m) == Len(ms[m].partitions) >= 3

\* mutant: last_check looks at the third machine only
ElviraConstruction_last_check_third(ms, seq) ==
    /\ Len(seq) >= 3
    /\ HasPartition2(ms, seq[3])
    /\ Len(ms[seq[3]].partitions[3]) > 0

\* ElviraConstruction.last_check: an IndexError of seq[2], seq[3] or of
\* partitions[2] is caught by the bare except and gives False; `and` does
\* not look at seq[3] when the first test is false
ElviraConstruction_last_check(ms, seq) ==
    /\ Len(seq) >= 3
    /\ HasPartition2(ms, seq[3])
    /\ Len(ms[seq[3]].partitions[3]) > 0
    /\ Len(seq) >= 4
    /\ HasPartition2(ms, seq[4])
    /\ Len(ms[seq[4]].partitions[3]) > 0

\* ElviraConstruction.act: the machines after the call, the new machine
\* "elvira" holding every machine of seq in its default partition
ElviraConstruction_act(ms, cs, seq) ==
    LET elvira_machine == Len(ms) + 1
        ms1 == Append(ms, Mach("elvira", Len(cs) + 1, << <<>> >>))
    IN  IF ~ElviraConstruction_last_check(ms, seq)
        THEN [ms |-> ms, cs |-> cs, ret |-> "None", result |-> <<>>]
        ELSE [ms |-> AppendEach(ms1, elvira_machine, seq),
              cs |-> Append(cs, ElviraPluginControl),
              ret |-> "value", result |-> <<elvira_machine>>]

\* ---------------------------------------- ElviraConstruction: actions
\* the token machines of the ElviraConstruction runs: "vonat" with the
\* default partition only, "menetrend" and a "BEFORE_AT" with an empty
\* partition 2, a "BEFORE_AT" and an "AFTER_AT" with a child in partition 2
ElviraMachines ==
    << Concept("vonat", << <<>> >>),
       Concept("menetrend", << <<>>, <<>>, <<>> >>),
       Concept("BEFORE_AT", << <<>>, <<>>, <<1>> >>),
       Concept("AFTER_AT", << <<>>, <<>>, <<2>> >>),
       Concept("BEFORE_AT", << <<>>, <<>>, <<>> >>) >>

\* sequences long enough to hold the fourth machine last_check looks at
ElviraInputs == SeqsUpTo(DOMAIN ElviraMachines, MaxLen + 1)

InitElvira ==
    /\ machines = ElviraMachines /\ controls = <<>>
    /\ cur = {} /\ vc = NoVerbConstruction
    /\ static = EmptyPool /\ active = EmptyPool
    /\ Idle

\* elvira.last_check(seq)
ElviraLastCheck(seq) ==
    /\ op = "idle"
    /\ Called("last_check", seq,
              IF ElviraConstruction_last_check(machines, seq) THEN "True" ELSE "False",
              <<>>, "")
    /\ UNCHANGED <<machines, controls, cur, vc, static, active>>

\* elvira.act(seq)
ElviraAct(seq) ==
    /\ op = "idle"
    /\ \E r \in {ElviraConstruction_act(machines, controls, seq)} :
         /\ machines' = r.ms /\ controls' = r.cs
         /\ Called("act", seq, r.ret, r.result, "")
    /\ UNCHANGED <<cur, vc, static, active>>

\* the caller takes the result and lets go of it: no token refers to the
\* machine "elvira", which is gone with its control
ElviraReturn ==
    /\ op # "idle"
    /\ machines' = SubSeq(machines, 1, Len(ElviraMachines))
    /\ controls' = <<>>
    /\ Called("idle", <<>>, "None", <<>>, "")
    /\ UNCHANGED <<cur, vc, static, active>>

NextElvira ==
    \/ \E seq \in ElviraInputs : ElviraLastCheck(seq)
    \/ \E seq \in ElviraInputs : ElviraAct(seq)
    \/ ElviraReturn

SpecElvira == InitElvira /\ [][NextElvira]_vars

\* ------------------------------------- generate_control: actions
\* a verb machine with the three argument slots NOM, ACC and DAT
ThreeArgumentVerb ==
    VerbTokens \o << Concept("eszik", << <<>>, <<Lemma + 1>>, <<Lemma + 2>>, <<Lemma + 3>> >>),
                     Concept("NOM", << <<>> >>), Concept("ACC", << <<>> >>),
                     Concept("DAT", << <<>> >>) >>

\* the instances generate_control is looked at for: no argument, one, two
\* and three arguments, in every order the dict may list the keys in
InitControl ==
    /\ \E ms \in PlainVerbs \cup ArgumentVerbs \cup {ThreeArgumentVerb} :
         LET found == discover_arguments(ms, EmptyDict, Lemma)
             transitions == DocumentedTransitions(found.d)
         IN  /\ machines = found.ms
             /\ \E arguments \in Perms(DOMAIN found.d) :
                  vc = [status |-> "ok", machine |-> Lemma,
                        arg_locations |-> found.d,
                        transitions |-> transitions,
                        phi |-> DocumentedPhi(found.d),
                        control |-> generate_control(transitions, arguments),
                        activated |-> FALSE]
    /\ controls = VerbControls
    /\ cur = {}
    /\ static = EmptyPool /\ active = EmptyPool
    /\ Idle

NextControl ==
    \/ \E seq \in VerbInputs : VerbCheck(seq)
    \/ Return

SpecControl == InitControl /\ [][NextControl]_vars

\* ------------------------------------------------- definition parser
\* decode_from_proszeky (boundary): the legacy spelling of an accented
\* letter, a letter followed by a digit, is turned into the letter; names
\* without such a pair are left as they are
decode_from_proszeky(name) ==
    CASE name = "ko2r" -> "k{o-diaeresis}r"
      [] name = "a1ru" -> "{a-acute}ru"
      [] OTHER -> name

\* n empty partitions
EmptyPartitions(n) == [i \in 1..n |-> <<>>]

\* create_machine(name, partitions): Machine(decode_from_proszeky(name),
\* ConceptControl(), partitions), a machine with that many empty partitions
\* and a control that has no POS string
create_machine(name, partitions) ==
    Mach(decode_from_proszeky(name), NoControl, EmptyPartitions(partitions))

\* the children of a machine, partition after partition
RECURSIVE ChildSeq(_, _)
ChildSeq(parts, i) ==
    IF i > Len(parts) THEN <<>> ELSE parts[i] \o ChildSeq(parts, i + 1)

\* a machine is reachable from its own children
Cyclic(ms, root) ==
    \E n \in ReachableFrom(ms, {root}) : n \in ReachableFrom(ms, Children(ms, n))

\* unify.__has_other(m)
has_other(ms, m) ==
    \E j \in DOMAIN ms[m].partitions[1] : printname(ms, ms[m].partitions[1][j]) = "other"

\* unify.__collect_machines: the machines below m in the order they are
\* met, a machine met twice listed twice (todo is the list still to walk)
RECURSIVE collect_machines(_, _)
collect_machines(ms, todo) ==
    IF todo = <<>> THEN <<>>
    ELSE <<Head(todo)>>
             \o collect_machines(ms, ChildSeq(ms[Head(todo)].partitions, 1))
             \o collect_machines(ms, Tail(todo))

\* the key machines[m.printname(), __has_other(m)] of the defaultdict
UnifyKey(ms, m) == <<printname(ms, m), has_other(ms, m)>>

NotOther(ms, p) == SelectSeq(p, LAMBDA c : printname(ms, c) # "other")

\* the children get_unified appends to partition p_i of res: those of every
\* machine of the list, in the order of the list
RECURSIVE UnifiedPartition(_, _, _)
UnifiedPartition(ms, list, p_i) ==
    IF list = <<>> THEN <<>>
    ELSE (IF p_i <= Len(ms[Head(list)].partitions)
          THEN NotOther(ms, ms[Head(list)].partitions[p_i]) ELSE <<>>)
             \o UnifiedPartition(ms, Tail(list), p_i)

\* unify.__get_unified(machines): the heap with the machine res added; a
\* child in a partition the prototype does not have is an IndexError
get_unified(ms, list) ==
    LET prototype == list[1]
        n == Len(ms[prototype].partitions)
        widest == CHOOSE w \in {Len(ms[list[i]].partitions) : i \in DOMAIN list} :
                      \A i \in DOMAIN list : Len(ms[list[i]].partitions) <= w
    IN  IF \E p_i \in (n + 1)..widest : UnifiedPartition(ms, list, p_i) # <<>>
        THEN [ms |-> ms, res |-> 0, raised |-> TRUE, err |-> "IndexError"]
        ELSE [ms |-> Append(ms,
                        [create_machine(printname(ms, prototype), n)
                            EXCEPT !.partitions =
                                [p_i \in 1..n |-> UnifiedPartition(ms, list, p_i)]]),
              res |-> Len(ms) + 1, raised |-> FALSE, err |-> ""]

\* unify.__replace(where, for_what, is_other) from the child at (p_i, m_i)
\* of where on: the child is replaced when it matches, and the machine then
\* at that place is walked.  A walk deeper than the heap has machines is on
\* a cycle and never ends: Python ends it with a RuntimeError.
RECURSIVE replace(_, _, _, _, _, _, _)
replace(ms, where, p_i, m_i, for_what, is_other, depth) ==
    IF depth > Len(ms)
    THEN [ms |-> ms, raised |-> TRUE, err |-> "RuntimeError"]
    ELSE IF p_i > Len(ms[where].partitions)
    THEN [ms |-> ms, raised |-> FALSE, err |-> ""]
    ELSE IF m_i > Len(ms[where].partitions[p_i])
    THEN replace(ms, where, p_i + 1, 1, for_what, is_other, depth)
    ELSE LET part_m == ms[where].partitions[p_i][m_i]
             hit == /\ printname(ms, part_m) = printname(ms, for_what)
                    /\ has_other(ms, part_m) = is_other
             ms1 == IF hit THEN [ms EXCEPT ![where].partitions[p_i][m_i] = for_what]
                    ELSE ms
         IN  \* the recursive call is bound once and used for both fields
             CHOOSE r \in {IF below.raised THEN below
                           ELSE replace(below.ms, where, p_i, m_i + 1,
                                        for_what, is_other, depth) :
                           below \in {replace(ms1, ms1[where].partitions[p_i][m_i],
                                              1, 1, for_what, is_other, depth + 1)}} : TRUE

\* the keys of the defaultdict filled by __collect_machines
UnifyKeys(ms, root) ==
    {UnifyKey(ms, m) : m \in Range(collect_machines(ms, ChildSeq(ms[root].partitions, 1)))}

\* the loop of unify over machines.iteritems(): the keys come in the order
\* `order`, the lists are those collected before the loop (keys.k is the
\* key a machine was filed under)
RECURSIVE UnifyLoop(_, _, _, _, _)
UnifyLoop(ms, root, collected, keys, order) ==
    IF order = <<>> THEN [ms |-> ms, raised |-> FALSE, err |-> ""]
    ELSE LET is_other == Head(order)[2]
             machines_to_unify == SelectSeq(collected, LAMBDA m : keys[m] = Head(order))
         IN  CHOOSE r \in {IF u.raised THEN [ms |-> ms, raised |-> TRUE, err |-> u.err]
                           ELSE CHOOSE q \in {IF w.raised THEN w
                                              ELSE UnifyLoop(w.ms, root, collected, keys,
                                                             Tail(order)) :
                                              w \in {replace(u.ms, root, 1, 1, u.res,
                                                             is_other, 1)}} : TRUE :
                           u \in {get_unified(ms, machines_to_unify)}} : TRUE

\* unify(machine); a graph with a cycle is walked for ever by
\* __collect_machines, which Python ends with a RuntimeError
unify(ms, machine, order) ==
    IF Cyclic(ms, machine) THEN [ms |-> ms, raised |-> TRUE, err |-> "RuntimeError"]
    ELSE LET collected == collect_machines(ms, ChildSeq(ms[machine].partitions, 1))
             keys == [m \in Range(collected) |-> UnifyKey(ms, m)]
         IN  UnifyLoop(ms, machine, collected, keys, order)

\* ------------------------------------------------------ unify: actions
MaxHeap == 18     \* cells of the heap unify may fill with unified machines

\* the definition graphs unify is looked at for: machine 1 is the root, its
\* children are drawn from machines 2 to 6 and 11
UnifyMachines ==
    << Concept("R", << <<>> >>),
       Concept("X", << <<7>> >>),         \* X with the child a
       Concept("X", << <<8>> >>),         \* X with the child b
       Concept("X", << <<9>> >>),         \* X with the child other
       Concept("X", << <<10>> >>),        \* X with a child X
       Concept("a", << <<>> >>),
       Concept("a", << <<>> >>),
       Concept("b", << <<>> >>),
       Concept("other", << <<>> >>),
       Concept("X", << <<>> >>),
       Concept("HAS", << <<>>, <<1>> >>) >>   \* refers back to the root, as
                                              \* the rule `A Binary` leaves it

UnifyRoots == (2..6) \cup {11}

InitUnify ==
    /\ \E children \in SeqsUpTo(UnifyRoots, MaxPart) :
         machines = [UnifyMachines EXCEPT ![1].partitions[1] = children]
    /\ controls = <<>>
    /\ cur = {} /\ vc = NoVerbConstruction
    /\ static = EmptyPool /\ active = EmptyPool
    /\ Idle

\* unify(machine) on the root, the dictionary listing its keys in the order
\* `order`
Unify(order) ==
    /\ op = "idle"
    /\ Len(machines) + Len(order) <= MaxHeap
    /\ \E r \in {unify(machines, 1, order)} :
         /\ machines' = r.ms
         /\ Called("unify", <<1>>, IF r.raised THEN "raise" ELSE "None", <<>>, r.err)
    /\ UNCHANGED <<controls, cur, vc, static, active>>

\* the orders the dictionary of unify may list its keys in; on a graph
\* with a cycle unify does not get as far as the dictionary
UnifyOrders(ms, root) ==
    IF Cyclic(ms, root) THEN {<<>>} ELSE Perms(UnifyKeys(ms, root))

NextUnify ==
    \/ \E order \in UnifyOrders(machines, 1) : Unify(order)
    \/ Return

SpecUnify == InitUnify /\ [][NextUnify]_vars

\* ------------------------------------------- definition parser: grammar
\* A line is the sequence of its lexemes, the maximal runs of characters
\* that one Word or Literal of the grammar takes (pyparsing skips the blanks
\* between them).  The character classes of the lexemes:
LowerWords == {"alma", "almum", "malum", "pomum", "piros", "kerek", "ko2r", "root"}
                                                           \* [a-z_0-9]+ with a letter
UpperWords == {"NOUN", "HAS", "ROOT", "ACC"}               \* [A-Z_]+
Numbers == {"1"}                                           \* [0-9]+

\* a node of the list pyparsing returns (asList): a string or a list
Str(s) == [t |-> "s", s |-> s, v |-> <<>>]
Lst(v) == [t |-> "l", s |-> "", v |-> v]

\* the result of one parser element at one place: the nodes it yields and
\* the place after it
NoParse == [ok |-> FALSE, toks |-> <<>>, at |-> 0]
Matched(nodes, at) == [ok |-> TRUE, toks |-> nodes, at |-> at]

\* pyparsing And (+): r, and then the element Next at the place after it
Then(r, Next(_)) ==
    Bind(r, LAMBDA a :
        IF ~a.ok THEN NoParse
        ELSE Bind(Next(a.at), LAMBDA b :
                 IF b.ok THEN Matched(a.toks \o b.toks, b.at) ELSE NoParse))

\* pyparsing Group, Suppress and Optional (i the place it is tried at)
Group(r) == Bind(r, LAMBDA a : IF a.ok THEN Matched(<<Lst(a.toks)>>, a.at) ELSE NoParse)
Suppress(r) == Bind(r, LAMBDA a : IF a.ok THEN Matched(<<>>, a.at) ELSE NoParse)
Optional(r, i) == Bind(r, LAMBDA a : IF a.ok THEN a ELSE Matched(<<>>, i))

\* pyparsing Or (^): the longest match, the first one of several of the
\* same length
RECURSIVE Longest(_, _, _)
Longest(rs, k, best) ==
    IF k > Len(rs) THEN best
    ELSE Bind(IF rs[k].ok /\ (~best.ok \/ rs[k].at > best.at) THEN rs[k] ELSE best,
              LAMBDA b : Longest(rs, k + 1, b))
Or(alternatives) == Bind(alternatives, LAMBDA rs : Longest(rs, 1, NoParse))

\* Literal(s) and Word(chars), chars given as the set of lexemes it takes
Literal(line, i, s) ==
    IF i \in DOMAIN line /\ line[i] = s THEN Matched(<<Str(s)>>, i + 1) ELSE NoParse
Word(line, i, lexemes) ==
    IF i \in DOMAIN line /\ line[i] \in lexemes THEN Matched(<<Str(line[i])>>, i + 1) ELSE NoParse

\* Combine: the strings matched, joined to one string
RECURSIVE Joined(_)
Joined(nodes) == IF nodes = <<>> THEN "" ELSE Head(nodes).s \o Joined(Tail(nodes))
Combine(r) == Bind(r, LAMBDA a : IF a.ok THEN Matched(<<Str(Joined(a.toks))>>, a.at) ELSE NoParse)

\* self.deep_cases, self.unary, self.binary, self.syntax_supp,
\* self.syntax_avm, self.syntax_exturl
grammar_deep_cases(line, i) ==
    Group(Then(Literal(line, i, "!"), LAMBDA j : Word(line, j, UpperWords)))
grammar_unary(line, i) ==
    Bind(Combine(Word(line, i, LowerWords \cup Numbers)), LAMBDA word :
        IF word.ok THEN word
        ELSE Bind(Group(Then(Literal(line, i, "="), LAMBDA j : Literal(line, j, "root"))),
                  LAMBDA root : IF root.ok THEN root ELSE grammar_deep_cases(line, i)))
grammar_binary(line, i) ==
    Combine(Then(Optional(Literal(line, i, "="), i),
                 LAMBDA j : Word(line, j, UpperWords \cup Numbers)))
grammar_syntax_supp(line, i) ==
    Then(Literal(line, i, "$"), LAMBDA j : Word(line, j, UpperWords))
grammar_syntax_avm(line, i) ==
    Then(Literal(line, i, "#"), LAMBDA j : Word(line, j, LowerWords \cup UpperWords))
grammar_syntax_exturl(line, i) ==
    Then(Literal(line, i, "@"), LAMBDA j : Word(line, j, LowerWords \cup UpperWords))

\* self.definition, self.expression, self.binexpr, self.unexpr and
\* self.argexpr at the lexeme i of the line
RECURSIVE grammar_definition(_, _), grammar_more(_, _), grammar_expression(_, _),
          grammar_binexpr(_, _), grammar_unexpr(_, _), grammar_argexpr(_, _)

\* ZeroOrMore(Suppress(clause_sep) + expression) of delimitedList
grammar_more(line, i) ==
    Bind(Then(Suppress(Literal(line, i, ",")), LAMBDA j : grammar_expression(line, j)),
         LAMBDA one :
            IF one.ok THEN Then(one, LAMBDA j : grammar_more(line, j)) ELSE Matched(<<>>, i))

\* D -> E | E, D
grammar_definition(line, i) ==
    IF i \notin DOMAIN line THEN NoParse
    ELSE Group(Then(grammar_expression(line, i), LAMBDA j : grammar_more(line, j)))

\* E -> UE | BE | U ( BE )
grammar_expression(line, i) ==
    IF i \notin DOMAIN line THEN NoParse
    ELSE Group(Or(<< grammar_unexpr(line, i),
                     grammar_binexpr(line, i),
                     Then(Then(Then(grammar_unary(line, i),
                                    LAMBDA j : Literal(line, j, "(")),
                               LAMBDA j : grammar_binexpr(line, j)),
                          LAMBDA j : Literal(line, j, ")")) >>))

\* BE -> A B | B A | A B A | B [ E; E ] | 'B | B'
grammar_binexpr(line, i) ==
    IF i \notin DOMAIN line THEN NoParse
    ELSE Bind(Then(grammar_argexpr(line, i), LAMBDA j : grammar_binary(line, j)),
              LAMBDA ab :
         Bind(grammar_binary(line, i), LAMBDA b :
            Group(Or(<< ab,
                        Then(b, LAMBDA j : grammar_argexpr(line, j)),
                        Then(ab, LAMBDA j : grammar_argexpr(line, j)),
                        Then(Then(Then(Then(Then(b,
                                                 LAMBDA j : Literal(line, j, "[")),
                                            LAMBDA j : grammar_expression(line, j)),
                                       LAMBDA j : Literal(line, j, ";")),
                                  LAMBDA j : grammar_expression(line, j)),
                             LAMBDA j : Literal(line, j, "]")),
                        Then(Literal(line, i, "'"), LAMBDA j : grammar_binary(line, j)),
                        Then(b, LAMBDA j : Literal(line, j, "'")) >>))))

\* UE -> U | SS | AVM | ExtUrl | U [ D ] | U ( U )
grammar_unexpr(line, i) ==
    IF i \notin DOMAIN line THEN NoParse
    ELSE Bind(grammar_unary(line, i), LAMBDA u :
            Group(Or(<< u,
                        grammar_syntax_supp(line, i),
                        grammar_syntax_avm(line, i),
                        grammar_syntax_exturl(line, i),
                        Then(Then(Then(u, LAMBDA j : Literal(line, j, "[")),
                                  LAMBDA j : grammar_definition(line, j)),
                             LAMBDA j : Literal(line, j, "]")),
                        Then(Then(Then(u, LAMBDA j : Literal(line, j, "(")),
                                  LAMBDA j : grammar_unary(line, j)),
                             LAMBDA j : Literal(line, j, ")")) >>)))

\* A -> UE | [ D ]
grammar_argexpr(line, i) ==
    IF i \notin DOMAIN line THEN NoParse
    ELSE Group(Or(<< grammar_unexpr(line, i),
                     Then(Then(Literal(line, i, "["),
                               LAMBDA j : grammar_definition(line, j)),
                          LAMBDA j : Literal(line, j, "]")) >>))

\* self.hu, self.pos, self.en, self.lt, self.pt and self.word
grammar_field(line, i) == Word(line, i, LowerWords \cup UpperWords \cup Numbers)
grammar_word(line, i) ==
    Group(Then(Then(Then(Then(grammar_field(line, i),
                              LAMBDA j : grammar_field(line, j)),
                         LAMBDA j : grammar_field(line, j)),
                    LAMBDA j : grammar_field(line, j)),
               LAMBDA j : grammar_field(line, j)))

\* LineEnd() after Optional(comment_sep + dontcare): the end of the line,
\* or a comment, which takes the rest of the line; neither yields a node
grammar_end(line, i) ==
    IF i = Len(line) + 1 \/ (i \in DOMAIN line /\ line[i] = "%")
    THEN Matched(<<>>, Len(line) + 1) ELSE NoParse

\* S -> W : D | W : D % _
grammar_sen(line) ==
    Then(Then(Then(Then(Word(line, 1, Numbers),
                        LAMBDA j : grammar_word(line, j)),
                   LAMBDA j : Suppress(Literal(line, j, ":"))),
              LAMBDA j : Optional(grammar_definition(line, j), j)),
         LAMBDA j : grammar_end(line, j))

\* DefinitionParser.parse(s): the list of nodes, or pyparsing.ParseException
parse(line) ==
    Bind(grammar_sen(line), LAMBDA r :
        IF r.ok THEN [raised |-> FALSE, err |-> "", parsed |-> r.toks]
        ELSE [raised |-> TRUE, err |-> "ParseException", parsed |-> <<>>])

\* ------------------------------------- definition parser: machines
\* unary_p and binary_p on a lexeme
unary_p(s) == s \in LowerWords \cup Numbers
binary_p(s) == s \in UpperWords \cup Numbers

\* DefinitionParser._is_binary(s) and _is_unary(s) on a node of the parse
is_binary(n) ==
    n.t = "s" /\ (binary_p(n.s) \/ n.s = "=ROOT")
is_unary(n) ==
    \/ n.t = "s" /\ (unary_p(n.s) \/ n.s = "!")
    \/ n.t = "l" /\ n.v # <<>> /\ n.v[1] = Str("!")
    \/ n.t = "l" /\ n.v = <<Str("="), Str("root")>>
is_tree(n) == n.t = "l"

\* how __parse_expr ends: with the list of machines it returns, or raising
Parsed(ms, res) == [ms |-> ms, raised |-> FALSE, err |-> "", res |-> res]
ParseRaise(ms, e) == [ms |-> ms, raised |-> TRUE, err |-> e, res |-> <<>>]

\* the heap with create_machine(name, partitions) in its next cell; the
\* name is a node of the parse, and a list is no name
create_machine_at(ms, name, partitions) ==
    IF name.t = "s" THEN Parsed(Append(ms, create_machine(name.s, partitions)), <<Len(ms) + 1>>)
    ELSE ParseRaise(ms, "TypeError")

\* Machine.append_all(what, which_partition)
RECURSIVE Machine_append_all(_, _, _, _)
Machine_append_all(ms, to, what, pi) ==
    IF what = <<>> THEN ms
    ELSE Machine_append_all(Machine_append(ms, to, Head(what), pi), to, Tail(what), pi)

RECURSIVE parse_expr(_, _, _, _), parse_definition(_, _, _, _)

\* DefinitionParser.__parse_expr(expr, parent, root)
parse_expr(ms, expr, parent, root) ==
    LET e == expr.v
        n == Len(e)
        unknown == ParseRaise(ms, "ParserException")
        \* a machine m with two partitions named e[b], the machines of
        \* e[x] in partition px, and then what in partition pw
        binary2(b, x, px, what, pw) ==
            Bind(create_machine_at(ms, e[b], 2), LAMBDA m :
            Bind(parse_expr(m.ms, e[x], m.res[1], root), LAMBDA sub :
                IF sub.raised THEN sub
                ELSE Parsed(Machine_append(Machine_append_all(sub.ms, m.res[1], sub.res, px),
                                           m.res[1], what, pw), m.res)))
        \* a machine m with two partitions named e[b], the machines of
        \* e[x] in partition 0 and those of e[y] in partition 1
        binary3(b, x, y) ==
            Bind(create_machine_at(ms, e[b], 2), LAMBDA m :
            Bind(parse_expr(m.ms, e[x], m.res[1], root), LAMBDA s0 :
                IF s0.raised THEN s0
                ELSE Bind(parse_expr(Machine_append_all(s0.ms, m.res[1], s0.res, 0),
                                     e[y], m.res[1], root), LAMBDA s1 :
                         IF s1.raised THEN s1
                         ELSE Parsed(Machine_append_all(s1.ms, m.res[1], s1.res, 1), m.res))))
        \* the relation with an apostrophe: a machine named e[b] that holds
        \* parent in partition pw and that nothing refers to
        primed(b, pw) ==
            Bind(create_machine_at(ms, e[b], 2), LAMBDA m :
                Parsed(Machine_append(m.ms, m.res[1], parent, pw), <<>>))
        \* create_machine(sigil + expr[1], 1)
        leaf(sigil) ==
            IF e[2].t = "s" THEN create_machine_at(ms, Str(sigil \o e[2].s), 1)
            ELSE ParseRaise(ms, "TypeError")
    IN  CASE n = 1 /\ is_tree(e[1]) -> parse_expr(ms, e[1], parent, root)
          [] n = 1 /\ ~is_tree(e[1]) /\ is_unary(e[1]) -> create_machine_at(ms, e[1], 1)
          [] n = 2 ->
                IF is_tree(e[1]) /\ is_binary(e[2]) THEN binary2(2, 1, 0, root, 1)
                ELSE IF is_binary(e[1]) /\ is_tree(e[2]) THEN binary2(1, 2, 1, root, 0)
                ELSE IF e[1] = Str("'") /\ is_binary(e[2]) THEN primed(2, 1)
                ELSE IF is_binary(e[1]) /\ e[2] = Str("'") THEN primed(1, 0)
                ELSE IF e[1] \in {Str("!"), Str("$"), Str("#"), Str("="), Str("@")}
                     THEN leaf(e[1].s)
                ELSE unknown
          [] n = 3 ->
                IF is_tree(e[1]) /\ is_binary(e[2]) /\ is_tree(e[3]) THEN binary3(2, 1, 3)
                ELSE IF e[1] = Str("[") /\ is_tree(e[2]) /\ e[3] = Str("]")
                     THEN parse_definition(ms, e[2].v, parent, root)
                ELSE unknown
          [] n = 4 ->
                IF is_unary(e[1]) /\ e[2] = Str("(") /\ is_tree(e[3]) /\ e[4] = Str(")")
                THEN Bind(parse_expr(ms, e[3], parent, root), LAMBDA sub :
                        IF sub.raised THEN sub
                        ELSE IF Len(sub.res) = 0 THEN ParseRaise(sub.ms, "ParserException")
                        ELSE Bind(create_machine_at(sub.ms, e[2], 1), LAMBDA paren :
                                IF Len(sub.res) # 1
                                THEN ParseRaise(Machine_append(paren.ms, sub.res[1],
                                                               paren.res[1], 0),
                                                "ParserException")
                                ELSE Parsed(Machine_append(paren.ms, sub.res[1],
                                                           paren.res[1], 0), sub.res)))
                ELSE IF is_unary(e[1]) /\ e[2] = Str("[") /\ is_tree(e[3]) /\ e[4] = Str("]")
                THEN Bind(create_machine_at(ms, e[1], 1), LAMBDA m :
                        IF m.raised THEN m
                        ELSE Bind(parse_definition(m.ms, e[3].v, m.res[1], root), LAMBDA d :
                                IF d.raised THEN d
                                ELSE Parsed(Machine_append_all(d.ms, m.res[1], d.res, 0),
                                            m.res)))
                ELSE IF is_unary(e[1]) /\ e[2] = Str("(") /\ is_unary(e[3]) /\ e[4] = Str(")")
                THEN Bind(create_machine_at(ms, e[3], 1), LAMBDA m :
                        IF m.raised THEN m
                        ELSE Bind(create_machine_at(m.ms, e[1], 1), LAMBDA u :
                                IF u.raised THEN u
                                ELSE Parsed(Machine_append(u.ms, m.res[1], u.res[1], 0),
                                            m.res)))
                ELSE unknown
          [] n = 6 ->
                IF /\ is_binary(e[1]) /\ e[2] = Str("[") /\ is_tree(e[3])
                   /\ e[4] = Str(";") /\ is_tree(e[5]) /\ e[6] = Str("]")
                THEN binary3(1, 3, 5)
                ELSE unknown
          [] OTHER -> unknown

\* DefinitionParser.__parse_definition(definition, parent, root), all of
\* the generator taken: the first machine of every clause, an IndexError
\* for a clause that gives none
parse_definition(ms, definition, parent, root) ==
    IF definition = <<>> THEN Parsed(ms, <<>>)
    ELSE Bind(parse_expr(ms, Head(definition), parent, root), LAMBDA d :
            IF d.raised THEN d
            ELSE IF d.res = <<>> THEN ParseRaise(d.ms, "IndexError")
            ELSE Bind(parse_definition(d.ms, Tail(definition), parent, root), LAMBDA rest :
                    IF rest.raised THEN rest
                    ELSE Parsed(rest.ms, <<d.res[1]>> \o rest.res)))

\* parse_into_machines with the clauses appended in the opposite order
RECURSIVE Reversed(_)
Reversed(s) == IF s = <<>> THEN <<>> ELSE Append(Reversed(Tail(s)), Head(s))
parse_into_machines_reversed(ms, line, printname_index) ==
    Bind(parse(line), LAMBDA p :
        IF p.raised THEN ParseRaise(ms, p.err)
        ELSE IF printname_index + 1 \notin DOMAIN p.parsed[2].v
        THEN ParseRaise(ms, "IndexError")
        ELSE Bind(create_machine_at(ms, p.parsed[2].v[printname_index + 1], 1),
                  LAMBDA machine :
                IF Len(p.parsed) > 2
                THEN Bind(parse_definition(machine.ms, p.parsed[3].v,
                                           machine.res[1], machine.res[1]), LAMBDA d :
                        IF d.raised THEN d
                        ELSE Parsed(Machine_append_all(d.ms, machine.res[1],
                                                       Reversed(d.res), 0), machine.res))
                ELSE machine))

\* DefinitionParser.parse_into_machines(s, printname_index): the heap with
\* the machines of the line, res the head machine
parse_into_machines(ms, line, printname_index) ==
    Bind(parse(line), LAMBDA p :
        IF p.raised THEN ParseRaise(ms, p.err)
        ELSE IF printname_index + 1 \notin DOMAIN p.parsed[2].v
        THEN ParseRaise(ms, "IndexError")
        ELSE Bind(create_machine_at(ms, p.parsed[2].v[printname_index + 1], 1),
                  LAMBDA machine :
                IF Len(p.parsed) > 2
                THEN Bind(parse_definition(machine.ms, p.parsed[3].v,
                                           machine.res[1], machine.res[1]), LAMBDA d :
                        IF d.raised THEN d
                        ELSE Parsed(Machine_append_all(d.ms, machine.res[1], d.res, 0),
                                    machine.res))
                ELSE machine))

\* the dictionary d of read with d[key] = m
DictSet(d, key, m) == [k \in DOMAIN d \cup {key} |-> IF k = key THEN m ELSE d[k]]

\* what line.strip() leaves of a line is empty, starts with "%", or is
\* handed to the parser
Blank(line) == line = <<>>
Comment(line) == line # <<>> /\ line[1] = "%"

\* read(f, printname_index): the loop over the lines of f from line i on.
\* Only pyparsing.ParseException is caught; the line is then printed.
RECURSIVE read_from(_, _, _, _, _, _)
read_from(ms, f, i, printname_index, d, printed) ==
    IF i > Len(f) THEN [ms |-> ms, raised |-> FALSE, err |-> "", d |-> d, printed |-> printed]
    ELSE IF Blank(f[i]) \/ Comment(f[i])
    THEN read_from(ms, f, i + 1, printname_index, d, printed)
    ELSE Bind(parse_into_machines(ms, f[i], printname_index), LAMBDA m :
            IF ~m.raised
            THEN Bind(DictSet(d, printname(m.ms, m.res[1]), m.res[1]), LAMBDA d1 :
                     read_from(m.ms, f, i + 1, printname_index, d1, printed))
            ELSE IF m.err = "ParseException"
            THEN Bind(Append(printed, i), LAMBDA printed1 :
                     read_from(m.ms, f, i + 1, printname_index, d, printed1))
            ELSE [ms |-> m.ms, raised |-> TRUE, err |-> m.err, d |-> d, printed |-> printed])

read(ms, f, printname_index) == read_from(ms, f, 1, printname_index, <<>>, <<>>)

\* ------------------------------------------- definition parser: actions
MaxClauses == 2   \* clauses of the generated definition bodies
MaxFile == 3      \* lines of a file handed to read

\* defid, the five fields of the word and the separator
AlmaHead == <<"1", "alma", "NOUN", "almum", "malum", "pomum", ":">>
KorHead == <<"1", "ko2r", "NOUN", "kerek", "piros", "alma", ":">>

\* the clauses joined by the clause separator
RECURSIVE Delimited(_)
Delimited(clauses) ==
    IF clauses = <<>> THEN <<>>
    ELSE IF Len(clauses) = 1 THEN clauses
    ELSE <<Head(clauses), ",">> \o Delimited(Tail(clauses))

\* lines whose body is a list of plain unary clauses, or no body
ClauseWords == {"piros", "kerek", "ko2r"}
UnaryLines ==
    {head \o Delimited(clauses) :
        head \in {AlmaHead, KorHead}, clauses \in SeqsUpTo(ClauseWords, MaxClauses)}

\* lines with other bodies
UnbalancedLine == AlmaHead \o <<"piros", "[", "kerek">>        \* piros [ kerek
PrimedInParenLine == KorHead \o <<"piros", "(", "'", "HAS", ")">>   \* piros('HAS)
PrefixedBinaryLine == AlmaHead \o <<"piros", "=", "HAS">>      \* piros =HAS
PrimedLine == AlmaHead \o <<"'", "HAS">>                       \* 'HAS
RelationLine == AlmaHead \o <<"piros", "HAS", "kerek">>        \* piros HAS kerek
PrimedAfterLine == AlmaHead \o <<"HAS", "'">>                  \* HAS'
NestedPrimedLine == AlmaHead \o <<"piros", "[", "'", "HAS", "]">>   \* piros['HAS]
MixedPrimedLine == KorHead \o <<"piros", ",", "'", "HAS">>     \* piros, 'HAS
ParenRelationLine == AlmaHead \o <<"piros", "(", "HAS", "kerek", ")">>   \* piros(HAS kerek)
ParenLeftLine == KorHead \o <<"ko2r", "(", "kerek", "HAS", ")">>         \* ko2r(kerek HAS)
BlankLine == <<>>
CommentLine == <<"%", "alma">>

OtherLines ==
    {UnbalancedLine, PrimedInParenLine, PrefixedBinaryLine, PrimedLine, RelationLine,
     PrimedAfterLine, NestedPrimedLine, MixedPrimedLine, ParenRelationLine, ParenLeftLine}

\* the lines the files handed to read are made of
FileLines ==
    {AlmaHead \o <<"piros", ",", "kerek">>, AlmaHead, KorHead \o <<"kerek">>,
     UnbalancedLine, PrimedInParenLine, BlankLine, CommentLine}

Files == SeqsUpTo(FileLines, MaxFile)

InitParser ==
    /\ machines = <<>> /\ controls = <<>>
    /\ cur = {} /\ vc = NoVerbConstruction
    /\ static = EmptyPool /\ active = EmptyPool
    /\ Idle

\* dp.parse_into_machines(s, printname_index); out is the machine returned
ParseIntoMachines(line, printname_index) ==
    /\ op = "idle"
    /\ \E r \in {parse_into_machines(machines, line, printname_index)} :
         /\ machines' = r.ms
         /\ Called("parse_into_machines", <<line, printname_index>>,
                   IF r.raised THEN "raise" ELSE "value", r.res, r.err)
    /\ UNCHANGED <<controls, cur, vc, static, active>>

\* read(f, printname_index); out is the dictionary returned and the lines
\* printed as errors
Read(f, printname_index) ==
    /\ op = "idle"
    /\ \E r \in {read(machines, f, printname_index)} :
         /\ machines' = r.ms
         /\ Called("read", <<f, printname_index>>,
                   IF r.raised THEN "raise" ELSE "value",
                   [d |-> r.d, printed |-> r.printed], r.err)
    /\ UNCHANGED <<controls, cur, vc, static, active>>

\* the caller takes the result and lets go of it
ParserReturn ==
    /\ op # "idle"
    /\ machines' = <<>>
    /\ Called("idle", <<>>, "None", <<>>, "")
    /\ UNCHANGED <<controls, cur, vc, static, active>>

NextParser ==
    \/ \E line \in UnaryLines \cup OtherLines, printname_index \in 0..4 :
         ParseIntoMachines(line, printname_index)
    \/ \E f \in Files, printname_index \in 0..1 : Read(f, printname_index)
    \/ ParserReturn

SpecParser == InitParser /\ [][NextParser]_vars

\* ------------------------------------- discover_arguments: actions
\* the verb machines discover_arguments is looked at for: partition 1 of
\* the verb holds children drawn from the machines 6 to 11, partition 2
\* at most one of ACC and @HUM
DiscoverMachines ==
    VerbTokens \o
    << Concept("eszik", << <<>>, <<>>, <<>> >>),
       Concept("NOM", << <<>> >>),
       Concept("ACC", << <<>> >>),
       Concept("@HUM", << <<>> >>),
       Concept("etel", << <<>>, <<Lemma + 7, Lemma + 8>> >>),   \* holds ACC and DAT
       Concept("kor", << <<>>, <<Lemma>> >>),     \* holds the verb in partition 1
       Concept("haz", << <<Lemma>>, <<>> >>),     \* holds the verb in partition 0
       Concept("ACC", << <<>> >>),
       Concept("DAT", << <<>> >>) >>

InitDiscover ==
    /\ \E p1 \in SeqsUpTo((Lemma + 1)..(Lemma + 6), MaxPart),
          p2 \in SeqsUpTo({Lemma + 2, Lemma + 3}, 1) :
         machines = [DiscoverMachines EXCEPT ![Lemma].partitions[2] = p1,
                                             ![Lemma].partitions[3] = p2]
    /\ controls = VerbControls
    /\ cur = {}
    /\ vc = NoVerbConstruction /\ static = EmptyPool /\ active = EmptyPool
    /\ Idle

NextDiscover ==
    \/ VerbNew
    \/ Return

SpecDiscover == InitDiscover /\ [][NextDiscover]_vars

\* =============================================================== claims
\* what a caller can see of a machine: its name, its POS string, its children
Visible(ms, cs, m) ==
    [name |-> ms[m].name,
     pos |-> IF HasPos(ms, m) THEN PosOf(ms, cs, m) ELSE <<>>,
     partitions |-> ms[m].partitions]

StartsWith(ms, cs, m, t) ==
    HasPos(ms, m) /\ Len(PosOf(ms, cs, m)) > 0 /\ PosOf(ms, cs, m)[1] = Tag(t)

\* [the, noun]: two machines, the first named "the", the second tagged NOUN..
TheShape(ms, cs, seq) ==
    /\ Len(seq) = 2
    /\ ms[seq[1]].name = "the"
    /\ StartsWith(ms, cs, seq[2], "NOUN")

\* ADJ* NOUN
NPShape(ms, cs, seq) ==
    /\ Len(seq) >= 1
    /\ StartsWith(ms, cs, seq[Len(seq)], "NOUN")
    /\ \A i \in 1..(Len(seq) - 1) : StartsWith(ms, cs, seq[i], "ADJ")

\* C5: TheConstruction.run(seq) returns a value exactly when seq is two
\* machines, the first with printname "the" and the second with a POS tag
\* that starts with NOUN; every other sequence is rejected with no value
\* returned and no machine modified.
C5_TheRunAcceptsExactlyTheNoun ==
    [][op' = "run" =>
          /\ (ret' = "value") <=> TheShape(machines, controls, arg')
          /\ ret' # "value" =>
                 (ret' = "None" /\ machines' = machines /\ controls' = controls)]_vars

C5_Witness == op = "run" /\ ret = "value" /\ Len(arg) = 2

\* C6 as stated: when TheConstruction accepts [the, noun] the result is the
\* one-element sequence holding the noun, whose POS string is its previous
\* one with "<DET>" appended; the "the" machine and the noun's partitions
\* are left unchanged.
C6_Original ==
    [][(op' = "run" /\ ret' = "value") =>
          /\ out' = <<arg'[2]>>
          /\ PosOf(machines', controls', arg'[2])
                 = Append(PosOf(machines, controls, arg'[2]), DET_SUFFIX)
          /\ machines'[arg'[2]] = machines[arg'[2]]
          /\ Visible(machines', controls', arg'[1])
                 = Visible(machines, controls, arg'[1])]_vars

\* C6 amended: the same result and POS string, the noun's name and
\* partitions unchanged; the "the" machine is left unchanged when it is
\* another machine than the noun and holds a control object of its own.
C6_TheActTagsTheNoun ==
    [][(op' = "run" /\ ret' = "value") =>
          /\ out' = <<arg'[2]>>
          /\ PosOf(machines', controls', arg'[2])
                 = Append(PosOf(machines, controls, arg'[2]), DET_SUFFIX)
          /\ machines'[arg'[2]] = machines[arg'[2]]
          /\ (arg'[1] # arg'[2]
                /\ machines[arg'[1]].control # machines[arg'[2]].control) =>
                 Visible(machines', controls', arg'[1])
                     = Visible(machines, controls, arg'[1])]_vars

C6_Witness == op = "run" /\ ret = "value" /\ arg[1] # arg[2]

\* C7: DummyNPConstruction.run(seq) returns a value exactly when seq is zero
\* or more machines tagged ADJ followed by exactly one machine tagged NOUN;
\* the empty sequence, adjectives only, and a token after the noun are
\* rejected.
C7_NPRunAcceptsExactlyAdjsNoun ==
    [][op' = "run" =>
          /\ (ret' = "value") <=> NPShape(machines, controls, arg')
          /\ ret' # "value" => ret' = "None"]_vars

C7_Witness == op = "run" /\ ret = "value" /\ Len(arg) = 2 /\ cur = {1}

C1_RunActsIffCheckAccepted ==
    op = "run" =>
        /\ acted <=> chk
        /\ ~chk => (ret = "None" /\ ~acted)

\* C2: VerbConstruction is single-use: act that completes sets activated,
\* activated never returns to false, and every check on an activated
\* instance returns false, whatever state its automaton was left in.
C2_VerbSingleUse ==
    [][/\ vc.activated => vc'.activated
       /\ (op' \in {"run", "act"} /\ ret' = "value") => vc'.activated
       /\ (vc.activated /\ op' = "check") => ret' = "False"]_vars

C2_Witness ==
    /\ vc.activated /\ op = "check" /\ ret = "False"
    /\ FSA_in_final(vc.control, cur) /\ arg = <<1>>

\* the argument keys of the instance
ArgKeys(v) == DOMAIN v.transitions \ {"VERB"}

\* one VERB token, then one token for each argument matcher, in some order
HypercubeShape(ms, cs, v, seq) ==
    /\ Len(seq) = Cardinality(ArgKeys(v)) + 1
    /\ Match(v.transitions["VERB"], ms, cs, seq[1])
    /\ \E path \in Perms(ArgKeys(v)) :
         \A i \in DOMAIN path : Match(v.transitions[path[i]], ms, cs, seq[i + 1])

ResolvedCase(pos) ==
    IF case_pattern_matches(pos)
    THEN pos[CHOOSE i \in 2..Len(pos) :
                 pos[i][1] = "CAS" /\ \A j \in 2..(i - 1) : pos[j][1] # "CAS"][2]
    ELSE "NOM"

Instances(act, pn) == IF pn \in DOMAIN act THEN DOMAIN act[pn] ELSE {}

\* C9: given a static entry A whose partition 1 references B, and B present
\* in the active pool, activate() completes without error and returns
\* exactly one newly created machine named A, registered in active["A"]
\* with its expanded flag true.
C9_ActivateReturnsExpandedInstance ==
    [][(/\ op' = "activate"
        /\ "A" \in DOMAIN static
        /\ Len(machines[static["A"]].partitions) = 2
        /\ \E j \in DOMAIN machines[static["A"]].partitions[2] :
             printname(machines, machines[static["A"]].partitions[2][j]) = "B"
        /\ \A j \in DOMAIN machines[static["A"]].partitions[2] :
             printname(machines, machines[static["A"]].partitions[2][j]) \in DOMAIN active) =>
          /\ ret' = "value"
          /\ \E i \in DOMAIN out' :
               /\ machines'[out'[i]].name = "A"
               /\ out'[i] \notin DOMAIN machines
               /\ out'[i] \in Instances(active', "A")
               /\ active'["A"][out'[i]] = TRUE
               /\ \A k \in DOMAIN out' : machines'[out'[k]].name = "A" => k = i]_vars

\* C10: activate() is not idempotent: every call creates a fresh instance
\* for every ready concept, so for a ready concept A the number of instances
\* in active["A"] grows by exactly one per call, and it never shrinks.
C10_ActivateAddsOneInstancePerReadyConcept ==
    [][op' = "activate" =>
          \A pn \in DOMAIN static :
              /\ Instances(active, pn) \subseteq Instances(active', pn)
              /\ to_activate(active, machines, static[pn]) =>
                     Cardinality(Instances(active', pn))
                         = Cardinality(Instances(active, pn)) + 1]_vars

\* C11: one call of activate() performs one hop only: a static concept gets
\* a new active instance in a call only if every printname it references in
\* its partitions of index >= 1 was in the active pool when the call
\* started, whatever order the static pool is iterated in.
C11_ActivateOneHop ==
    [][op' = "activate" =>
          \A pn \in DOMAIN static :
              Instances(active', pn) # Instances(active, pn)
                  => to_activate(active, machines, static[pn])]_vars

\* C12: expand(machine) changes nothing unless the machine is registered
\* active and a static definition exists: for an instance that is not in
\* active[printname] it fails with an error and both pools are unchanged;
\* for an active instance whose printname has no static entry it returns
\* without raising and the instance's expanded flag stays false.
C12_ExpandNeedsActiveAndStatic ==
    [][op' = "expand" =>
          LET m == arg'[1]
              pn == printname(machines, m)
          IN  /\ static' = static /\ machines' = machines
              /\ ~IsActive(active, machines, m) =>
                     (ret' = "raise" /\ active' = active)
              /\ (IsActive(active, machines, m) /\ pn \notin DOMAIN static) =>
                     /\ ret' = "None" /\ active' = active
                     /\ active'[pn][m] = FALSE]_vars

C12_Witness ==
    /\ op = "expand" /\ ret = "None"
    /\ IsActive(active, machines, arg[1])
    /\ printname(machines, arg[1]) \notin DOMAIN static
    /\ static # EmptyDict

\* C13: for an active machine whose printname has a static definition,
\* expand(machine) returns without raising, every child of static partition
\* i (i >= 1) is in partition i of the machine afterwards, once, partition 0
\* is untouched, and the machine's expanded flag is true.
C13_ExpandCopiesChildren ==
    [][(/\ op' = "expand"
        /\ IsActive(active, machines, arg'[1])
        /\ printname(machines, arg'[1]) \in DOMAIN static) =>
          LET m == arg'[1]
              pn == printname(machines, m)
              sp == machines[static[pn]].partitions
              mp == machines'[m].partitions
          IN  /\ ret' = "None"
              /\ active'[pn][m] = TRUE
              /\ mp[1] = machines[m].partitions[1]
              /\ \A i \in 2..Len(sp) :
                   /\ i \in DOMAIN mp
                   /\ \A j \in DOMAIN sp[i] :
                        Cardinality({k \in DOMAIN mp[i] : mp[i][k] = sp[i][j]}) = 1]_vars

\* C14: add_active registers every given machine (one Machine or a list)
\* under its printname with expanded = false, keeps the other instances and
\* their flags, resets the flag of an instance already registered, and for
\* any other input type raises nothing and leaves both pools unchanged.
C14_AddActiveRegistersUnexpanded ==
    [][/\ op' = "add_active" =>
            /\ ret' = "None" /\ static' = static /\ machines' = machines
            /\ \A i \in DOMAIN arg' :
                 /\ IsActive(active', machines, arg'[i])
                 /\ active'[printname(machines, arg'[i])][arg'[i]] = FALSE
            /\ \A pn \in DOMAIN active : \A k \in DOMAIN active[pn] :
                 /\ pn \in DOMAIN active' /\ k \in DOMAIN active'[pn]
                 /\ k \notin Range(arg') => active'[pn][k] = active[pn][k]
            /\ \A pn \in DOMAIN active' : \A k \in DOMAIN active'[pn] :
                 IsActive(active, machines, k) \/ k \in Range(arg')
       /\ op' = "add_active_other" =>
            (ret' = "None" /\ active' = active /\ static' = static)]_vars

\* an instance that had been expanded is registered again, next to another
\* instance of the same printname
C14_Witness ==
    /\ op = "add_active" /\ Len(arg) = 1
    /\ printname(machines, arg[1]) \in DOMAIN static
    /\ Len(machines[static[printname(machines, arg[1])]].partitions) = 1
    /\ active[printname(machines, arg[1])][arg[1]] = FALSE
    /\ \E k \in DOMAIN active[printname(machines, arg[1])] :
         k # arg[1] /\ active[printname(machines, arg[1])][k] = TRUE

\* what C18 asks of seq: at least four machines, the third and the fourth
\* with a partition 2 that is not empty
ElviraReady(ms, seq) ==
    /\ Len(seq) >= 4
    /\ \A i \in {3, 4} :
         Len(ms[seq[i]].partitions) >= 3 /\ ms[seq[i]].partitions[3] # <<>>

\* C18: ElviraConstruction.act(seq) returns no value whenever last_check(seq)
\* is false; last_check is false, never an exception, when seq has fewer
\* than four machines or the third or fourth machine lacks a partition 2 or
\* has an empty one; otherwise act returns one new machine named "elvira"
\* whose default partition holds every machine of seq in order.
C18_ElviraActNeedsLastCheck ==
    [][/\ op' = "last_check" =>
            /\ ret' \in {"True", "False"}
            /\ (ret' = "True") <=> ElviraReady(machines, arg')
       /\ (op' = "act" /\ ~ElviraReady(machines, arg')) =>
            (ret' = "None" /\ out' = <<>> /\ machines' = machines)
       /\ (op' = "act" /\ ElviraReady(machines, arg')) =>
            /\ ret' = "value" /\ Len(out') = 1
            /\ out'[1] \notin DOMAIN machines
            /\ machines'[out'[1]].name = "elvira"
            /\ machines'[out'[1]].partitions = <<arg'>>
            /\ \A m \in DOMAIN machines : machines'[m] = machines[m]]_vars

C18_Witness ==
    /\ op = "act" /\ ret = "value" /\ Len(arg) = 4
    /\ machines[out[1]].partitions[1] = arg

\* C19: for a base Construction, check(seq) resets the automaton before it
\* reads, so its result depends on seq only: after any earlier check / run
\* calls on the instance, check(seq) returns what a freshly built instance
\* returns (for DummyNPConstruction: whether seq is ADJ* NOUN).
C19_CheckDependsOnSeqOnly ==
    [][op' = "check" =>
          LET fresh == DummyNPConstruction_control
          IN  /\ chk' = FSA_in_final(fresh,
                            ReadAll(fresh, fresh.init, machines, controls, arg'))
              /\ chk' <=> NPShape(machines, controls, arg')
              /\ (ret' = "True") <=> chk']_vars

\* a check that accepts after an earlier run on the same instance, which
\* left the automaton in its final state and attached an adjective
C19_Witness ==
    /\ op = "check" /\ chk /\ Len(arg) = 1
    /\ machines[arg[1]].partitions[1] # <<>>

\* bit k of x is not set
BitClear(x, k) == (x \div Pow2(k)) % 2 = 0

RECURSIVE SumPow2(_)
SumPow2(S) ==
    IF S = {} THEN 0
    ELSE LET k == CHOOSE x \in S : TRUE IN Pow2(k) + SumPow2(S \ {k})

\* the transitions of the hypercube for the argument list `arguments`: the
\* VERB step from 0 to 1, and for every set S of argument indices consumed
\* and every index k not in S the step from 1 + sum(S) to 1 + sum(S) + 2^k
HypercubeTransitions(v, arguments) ==
    {[from |-> 0, t |-> v.transitions["VERB"], to |-> 1]} \cup
    {[from |-> 1 + SumPow2(S), t |-> v.transitions[arguments[k + 1]],
      to |-> 1 + SumPow2(S) + Pow2(k)] :
        <<S, k>> \in {x \in (SUBSET (0..(Len(arguments) - 1))) \X (0..(Len(arguments) - 1)) :
                          x[2] \notin x[1]}}

RECURSIVE Tree(_, _)
Tree(ms, m) ==
    [name |-> printname(ms, m),
     parts |-> [p \in DOMAIN ms[m].partitions |->
                   [i \in DOMAIN ms[m].partitions[p] |-> Tree(ms, ms[m].partitions[p][i])]]]

\* a second unify, whatever the order of its dictionary, leaves the shape
\* of the graph below root as it is
UnifyFixpoint(ms, root) ==
    /\ ~Cyclic(ms, root)
    /\ \A order \in UnifyOrders(ms, root) :
         \E r \in {unify(ms, root, order)} :
             /\ ~r.raised
             /\ ~Cyclic(r.ms, root)
             /\ Tree(r.ms, root) = Tree(ms, root)

\* C17: unify applied to an acyclic graph returns, leaves every name of
\* the graph on one shared machine, and leaves a graph that a further unify
\* does not change in shape.
C17_UnifyIdempotent ==
    [][(op' = "unify" /\ ~Cyclic(machines, 1))
          => /\ ret' = "None"
             /\ \A m, n \in ReachableFrom(machines', {1}) \ {1} :
                   printname(machines', m) = printname(machines', n) => m = n
             /\ UnifyFixpoint(machines', 1)]_vars

\* the line is a sentence whose body is a list of plain unary clauses, or
\* that has no body: defid, five fields, the separator, and then words
\* and clause separators in turn
UnaryBody(line) ==
    /\ Len(line) >= 7
    /\ line[1] \in Numbers
    /\ \A i \in 2..6 : line[i] \in LowerWords \cup UpperWords \cup Numbers
    /\ line[7] = ":"
    /\ Len(line) > 7 => (Len(line) - 7) % 2 = 1
    /\ \A i \in 8..Len(line) : IF i % 2 = 0 THEN line[i] \in LowerWords ELSE line[i] = ","

\* the clauses of such a line, in their order
ClausesOf(line) == [k \in 1..((Len(line) - 6) \div 2) |-> line[6 + 2 * k]]

\* C16: for a sentence line whose body is k plain unary clauses (k = 0: no
\* body) parse_into_machines returns a machine named by the selected field
\* of the word, decoded, with one partition that holds k machines of one
\* empty partition each, named by the decoded clauses in their order.
C16_UnaryClauses ==
    [][(op' = "parse_into_machines" /\ UnaryBody(arg'[1]))
          => /\ ret' = "value"
             /\ Len(out') = 1
             /\ LET line == arg'[1]
                    head == machines'[out'[1]]
                IN  /\ head.name = decode_from_proszeky(line[2 + arg'[2]])
                    /\ Len(head.partitions) = 1
                    /\ Len(head.partitions[1]) = Len(ClausesOf(line))
                    /\ \A k \in DOMAIN ClausesOf(line) :
                          LET clause == machines'[head.partitions[1][k]]
                          IN  /\ clause.name = decode_from_proszeky(ClausesOf(line)[k])
                              /\ clause.partitions = << <<>> >>
                    /\ \A j, k \in DOMAIN head.partitions[1] :
                          head.partitions[1][j] = head.partitions[1][k] => j = k]_vars

\* parse_into_machines has returned for "1 ko2r NOUN kerek piros alma :
\* piros, ko2r" with the first field selected: two clauses, and names that
\* decoding changes
C16_Witness ==
    /\ op = "parse_into_machines" /\ ret = "value"
    /\ arg = <<KorHead \o <<"piros", ",", "ko2r">>, 0>>
    /\ Len(machines[out[1]].partitions[1]) = 2
    /\ machines[out[1]].name # "ko2r"

\* what parse_into_machines makes of the line on its own
LineOutcome(line, printname_index) == parse_into_machines(<<>>, line, printname_index)

\* the line is neither blank nor a comment and is loaded / fails with a
\* grammar error or a parse-tree shape error
Loads(line, printname_index) ==
    ~Blank(line) /\ ~Comment(line) /\ ~LineOutcome(line, printname_index).raised
Fails(line, printname_index) ==
    /\ ~Blank(line) /\ ~Comment(line)
    /\ LineOutcome(line, printname_index).err \in {"ParseException", "ParserException"}

\* the name of a machine and the names of the children in its partition 0
HeadShape(ms, m) ==
    [name |-> printname(ms, m),
     children |-> [i \in DOMAIN ms[m].partitions[1] |-> printname(ms, ms[m].partitions[1][i])]]

\* C15: read over a file whose lines are blank, comments, well formed, or
\* fail with a grammar error or a parse-tree shape error returns; it has
\* reported exactly the failing lines, and the mapping it returns holds
\* exactly the head machines of the well-formed lines, the later line of
\* two with one printname.
C15_ReadResilient ==
    [][(/\ op' = "read"
        /\ \A i \in DOMAIN arg'[1] :
              \/ Blank(arg'[1][i]) \/ Comment(arg'[1][i])
              \/ Loads(arg'[1][i], arg'[2]) \/ Fails(arg'[1][i], arg'[2]))
          => LET f == arg'[1]
                 pi == arg'[2]
                 loaded == {i \in DOMAIN f : Loads(f[i], pi)}
                 headname(i) == decode_from_proszeky(f[i][2 + pi])
             IN  /\ ret' = "value"
                 /\ Range(out'.printed) = {i \in DOMAIN f : Fails(f[i], pi)}
                 /\ DOMAIN out'.d = {headname(i) : i \in loaded}
                 /\ \A i \in loaded :
                       (\A j \in loaded : headname(j) = headname(i) => j <= i)
                          => HeadShape(machines', out'.d[headname(i)])
                               = HeadShape(LineOutcome(f[i], pi).ms,
                                           LineOutcome(f[i], pi).res[1])]_vars

\* C21: constructing a VerbConstruction for a verb machine with one or
\* more discovered arguments succeeds, phi maps the matcher of every
\* argument key to the locations recorded for the key, and the VERB
\* matcher to no locations.
C21_PhiMapsArgumentLocations ==
    [][(op' = "new" /\ DOMAIN vc'.arg_locations # {})
          => /\ ret' = "None" /\ vc'.status = "ok"
             /\ \A k \in DOMAIN vc'.arg_locations :
                   /\ ArgTransition(k) \in DOMAIN vc'.phi
                   /\ vc'.phi[ArgTransition(k)] = Locations(vc'.arg_locations[k])
             /\ vc'.phi[VerbTransition] = NoLocations]_vars

\* the children discover_arguments walks into: those of the partitions of
\* index 1 and more
WalkedChildren(ms, m) ==
    UNION {Range(ms[m].partitions[i]) : i \in DOMAIN ms[m].partitions \ {1}}

\* the machines the walk from the machines `seen` reaches
RECURSIVE Walked(_, _)
Walked(ms, seen) ==
    LET more == seen \cup UNION {WalkedChildren(ms, m) : m \in seen}
    IN  IF more = seen THEN seen ELSE Walked(ms, more)

\* a machine of the walk from m is reached again from its own children
WalkCyclic(ms, m) ==
    \E n \in Walked(ms, {m}) : n \in Walked(ms, WalkedChildren(ms, n))

IsArgument(ms, c) == printname(ms, c) \in deep_cases \/ startswith_at(printname(ms, c))

\* C22: after discover_arguments on an acyclic verb machine every child of
\* a walked partition that is named as a deep case or with "@" is recorded
\* under its printname with its machine and partition index, and the
\* partition holds the other children alone, in their order.
C22_ArgumentsRecordedAndRemoved ==
    [][(op' = "new" /\ ~WalkCyclic(machines, Lemma))
          => \A m \in Walked(machines, {Lemma}) :
                \A pi \in DOMAIN machines[m].partitions \ {1} :
                   /\ \A i \in DOMAIN machines[m].partitions[pi] :
                         LET c == machines[m].partitions[pi][i]
                         IN  IsArgument(machines, c)
                                => /\ printname(machines, c) \in DOMAIN vc'.arg_locations
                                   /\ <<m, pi - 1>> \in
                                         Range(vc'.arg_locations[printname(machines, c)])
                   /\ machines'[m].partitions[pi]
                         = SelectSeq(machines[m].partitions[pi],
                                     LAMBDA c : ~IsArgument(machines, c))]_vars

\* the node of a relation with an apostrophe: 'B or B'
IsDangling(n) ==
    /\ n.t = "l" /\ Len(n.v) = 2
    /\ \/ n.v[1] = Str("'") /\ is_binary(n.v[2])
       \/ is_binary(n.v[1]) /\ n.v[2] = Str("'")

\* the clause (an expression of a definition) is such a relation
DanglingClause(e) == Len(e.v) = 1 /\ IsDangling(e.v[1])

\* the definition has such a clause, itself or in a definition [D] nested
\* in one of its clauses U [ D ]
RECURSIVE HasDanglingClause(_)
HasDanglingClause(definition) ==
    \E i \in DOMAIN definition :
       \/ DanglingClause(definition[i])
       \/ LET ue == definition[i].v[1]
          IN  /\ Len(definition[i].v) = 1 /\ ue.t = "l" /\ Len(ue.v) = 4
              /\ ue.v[2] = Str("[")
              /\ HasDanglingClause(ue.v[3].v)

\* C23: a line whose definition holds a relation with an apostrophe as a
\* clause, at top level or in a nested [D], is converted without error,
\* and partition 0 of the head holds one machine for every other clause of
\* the top level and none for the clause.
C23_DanglingClauseTolerated ==
    [][(/\ op' = "parse_into_machines"
        /\ ~parse(arg'[1]).raised
        /\ Len(parse(arg'[1]).parsed) > 2
        /\ HasDanglingClause(parse(arg'[1]).parsed[3].v))
          => /\ ret' = "value"
             /\ Len(machines'[out'[1]].partitions[1])
                   = Len(SelectSeq(parse(arg'[1]).parsed[3].v,
                                   LAMBDA e : ~DanglingClause(e)))]_vars

\* the clause is an expression of the form U ( BE )
ParenClause(e) ==
    /\ e.t = "l" /\ Len(e.v) = 4
    /\ is_unary(e.v[1]) /\ e.v[2] = Str("(") /\ is_tree(e.v[3])
    /\ e.v[4] = Str(")")

\* C24: for a line whose definition is one clause U ( BE ): when BE yields
\* a machine, the conversion returns and the machine of BE, the only child
\* of the head, holds in partition 0 a machine of one partition named after
\* U; when BE is a relation with an apostrophe, the conversion fails with
\* the ParserException of the rule.
C24_ParenWrapsWithUnary ==
    [][(/\ op' = "parse_into_machines"
        /\ ~parse(arg'[1]).raised
        /\ Len(parse(arg'[1]).parsed) > 2
        /\ Len(parse(arg'[1]).parsed[3].v) = 1
        /\ ParenClause(parse(arg'[1]).parsed[3].v[1]))
          => LET ue == parse(arg'[1]).parsed[3].v[1]
             IN  IF IsDangling(ue.v[3])
                 THEN ret' = "raise" /\ err' = "ParserException"
                 ELSE /\ ret' = "value"
                      /\ Len(machines'[out'[1]].partitions[1]) = 1
                      /\ \E c \in Range(machines'[machines'[out'[1]].partitions[1][1]]
                                           .partitions[1]) :
                            /\ machines'[c].name = create_machine(ue.v[1].s, 1).name
                            /\ Len(machines'[c].partitions) = 1]_vars

C26_WalksEndIffAcyclic ==
    [][/\ op' = "unify"
          => ((ret' = "raise" /\ err' = "RuntimeError") <=> Cyclic(machines, arg'[1]))
       /\ (op' = "new" /\ vc'.machine = Lemma)
          => (err' = "RuntimeError" <=> WalkCyclic(machines, Lemma))]_vars

\* the instance is registered active and its flag says expanded
FlagOf(act, ms, m) ==
    /\ m \in DOMAIN ms /\ IsActive(act, ms, m)
    /\ act[printname(ms, m)][m]

\* C27: over add_static, add_active, expand and activate, every instance in
\* the active pool is stored under its printname; the flag of an instance
\* becomes true only by an expand on it that completes (called directly, or
\* by activate on the instance it has just made) while the static pool has
\* its printname, and is false after add_active registers the instance
\* again; no entry leaves either pool; only add_static changes the static
\* pool.
C27_LexiconPools ==
    [][/\ \A pn \in DOMAIN active' : \A m \in DOMAIN active'[pn] :
             m \in DOMAIN machines' /\ printname(machines', m) = pn
       /\ \A m \in DOMAIN machines' :
             (FlagOf(active', machines', m) /\ ~FlagOf(active, machines, m))
                => /\ printname(machines', m) \in DOMAIN static
                   /\ \/ op' = "expand" /\ arg' = <<m>> /\ ret' = "None"
                      \/ op' = "activate" /\ m \notin DOMAIN machines
       /\ op' = "add_active"
             => \A m \in Range(arg') :
                   IsActive(active', machines', m) /\ ~FlagOf(active', machines', m)
       /\ DOMAIN static \subseteq DOMAIN static'
       /\ \A pn \in DOMAIN active :
             pn \in DOMAIN active' /\ DOMAIN active[pn] \subseteq DOMAIN active'[pn]
       /\ static' # static => op' = "add_static"]_vars

\* an expand has completed on an instance whose printname holds a second
\* instance, the static pool having the printname
C27_Witness ==
    /\ op = "expand" /\ ret = "None"
    /\ FlagOf(active, machines, arg[1])
    /\ printname(machines, arg[1]) \in DOMAIN static
    /\ Cardinality(DOMAIN active[printname(machines, arg[1])]) >= 2

====
